---- MODULE Spec2Model ----
(***************************************************************************)
(* Model of the kokoro-agent session engine (package agent): the outer     *)
(* retry loop Agent.Run, one session attempt Agent.runOnce with the        *)
(* goroutines it starts (reconnect watcher, keepalive, receive loop,       *)
(* metrics loop, tcpping loop), Agent.ReloadConfig, Agent.Stop and the     *)
(* runtime overlay merge Agent.applyConfigFromMessage.                     *)
(*                                                                         *)
(* Time is abstracted: a timer, ticker, deadline or sleep may fire at any  *)
(* moment it is armed.  A connection is known by the order in which Dial   *)
(* returned it (1, 2, ...); the goroutines of runOnce are indexed by the   *)
(* connection they captured.                                               *)
(***************************************************************************)
EXTENDS Integers, Sequences, FiniteSets, TLC

\* ------------------------------------------------------------------ bounds
MaxConns == 2        \* connections Dial may hand out in one run
MaxSeq == 2          \* values the sequence counter may issue in one run
MaxSleeps == 1       \* failed dials in one run of the session model
RetrySleeps == 7      \* failed dials in one run of the retry model
MaxWriters == 2      \* goroutines calling writeFrame on one connection
MaxStream == 4       \* Write calls on one connection the codec model follows
MaxFrames == 2       \* inbound frames in one run of the reader model
MaxCollects == 3     \* collector calls counted in one run of the collector model

\* ------------------------------------------------------- program constants
InitialBackoff == 1  \* time.Second
BackoffCap == 30     \* 30*time.Second

Conns == 1..MaxConns

VARIABLES
    \* Agent fields
    stopped,        \* stopCh is closed (Agent.stopped)
    reconnectCh,    \* number of signals buffered in reconnectCh (capacity 1)
    cfg,            \* a.cfg, the static configuration
    rt,             \* a.rt, the runtime overlay
    seq,            \* a.seq
    \* Agent.Run and the runOnce it is executing
    runPc,          \* position of the Run goroutine
    backoff,        \* Run's local backoff, in seconds
    nconn,          \* connections returned by Dial so far; the current one is nconn
    lastErr,        \* Run's err while it is live: what runOnce returned
    \* per connection: the connection and the goroutines that captured it
    connOpen,       \* the net.Conn is not closed locally
    ctxDone,        \* the session context of the attempt is cancelled
    watcher,        \* reconnect watcher goroutine
    keepalive,      \* keepalive goroutine
    recv,           \* recvLoop goroutine
    seenReady,      \* recvLoop's local seenReady
    ready,          \* the ready channel is closed
    recvErr,        \* content of the recvErr channel (capacity 1)
    metricsPc,      \* metrics loop goroutine
    mseq,           \* metrics loop's local seq
    minterval,      \* metrics loop's local interval while its timer is armed, in ms
    tcpPc,          \* tcpping loop goroutine
    pLocal,         \* tcpping loop's locals interval and targets
    pseq,           \* tcpping loop's local seq
    \* observation of the wire and of the run (history)
    firstFrame,     \* type of the first frame written on the current connection
    wire,           \* metrics and tcpping_batch messages in the order written
    nsleep,         \* backoff sleeps begun so far
    lastMsg,        \* last message handed to applyConfigFromMessage
    prevRt,         \* the overlay just before that message was applied
    lastAck,        \* the config_ack recvLoop wrote last
    ncollect,       \* calls of the metrics collector counted so far
    \* ws.Conn: concurrent writeFrame calls on one connection
    wmu,            \* holder of Conn.mu, 0 when unlocked
    wpc,            \* per writer: position in writeFrame
    wframe,         \* per writer: the frame it is writing
    stream,         \* the Write calls made on the net.Conn, in order
    \* ws.Conn: ReadMessage on the inbound byte stream
    inbox,          \* inbound frames not read yet
    nin,            \* inbound frames so far
    rpc,            \* "read" inside ReadMessage, "returned" after it
    rf,             \* the frame the last readFrame call read and what it returned
    ret,            \* what ReadMessage returned last
    replies,        \* the frames ReadMessage wrote (WritePong, WriteClose)
    \* ws.Dial
    dial,           \* the Dial call: its position, key, the response, its result
    \* Agent.mu and Agent.rtMu
    locks           \* who holds each lock, and which tasks are reading a.cfg

vars == <<stopped, reconnectCh, cfg, rt, seq, runPc, backoff, nconn,
          lastErr, connOpen, ctxDone, watcher, keepalive, recv, seenReady,
          ready, recvErr, metricsPc, mseq, minterval, tcpPc, pLocal, pseq, firstFrame,
          wire, nsleep, lastMsg, prevRt, lastAck, ncollect, wmu, wpc, wframe,
          stream,
          inbox, nin, rpc, rf, ret, replies, dial, locks>>

agentVars == <<stopped, reconnectCh, cfg, rt, seq>>
runVars == <<runPc, backoff, nconn, lastErr>>
connVars == <<connOpen, ctxDone>>
watchVars == <<watcher, keepalive>>
recvVars == <<recv, seenReady, ready, recvErr>>
loopVars == <<metricsPc, mseq, minterval, tcpPc, pLocal, pseq>>
wireVars == <<firstFrame, wire>>
histVars == <<nsleep, lastMsg, prevRt, lastAck>>
writeVars == <<wmu, wpc, wframe, stream>>
readVars == <<inbox, nin, rpc, rf, ret, replies>>
codecVars == <<writeVars, readVars>>
dialVars == <<dial>>
lockVars == <<locks>>
sessionVars ==
    <<agentVars, runVars, connVars, watchVars, recvVars, loopVars, wireVars, histVars,
      ncollect>>

Min(a, b) == IF a < b THEN a ELSE b

\* ---------------------------------------------------- static configuration
\* config.Config, reduced to the fields the session engine reads.
Configs ==
    { [Token |-> 1, MetricsIntervalMS |-> 1000, TCPPingEnabled |-> FALSE, TCPPingIntervalSec |-> 5],
      [Token |-> 2, MetricsIntervalMS |-> 1000, TCPPingEnabled |-> TRUE, TCPPingIntervalSec |-> 5] }

\* -------------------------------------------------------- runtime overlay
ZeroRt ==
    [MetricsIntervalMS |-> 0, TCPPingEnabled |-> FALSE, TCPPingIntervalSec |-> 0,
     TCPPingTargets |-> <<>>, ConfigVersion |-> 0]


\* ------------------------------------------------------- inbound messages
\* A decoded JSON text message (map[string]any).  config is "absent" (no
\* "config" key), "bad" (the value does not decode into the config struct)
\* or "ok"; has names the keys present in the config object; hasVer says
\* that "config_version" is present and a number.
Fields == {"metrics_interval_ms", "enabled", "interval_sec", "targets"}
MsVals == {0, 5}
IsecVals == {0, 10}
TgVals == {<<>>, <<1>>, <<2, 1>>}
VerVals == {0, 1, 2}

\* messages with a config object, without and with a config_version
ConfigMsgs(types) ==
    { [type |-> t, config |-> "ok", has |-> h,
       ms |-> IF "metrics_interval_ms" \in h THEN x ELSE 0,
       en |-> IF "enabled" \in h THEN e ELSE FALSE,
       isec |-> IF "interval_sec" \in h THEN i ELSE 0,
       tg |-> IF "targets" \in h THEN g ELSE <<>>,
       hasVer |-> FALSE, ver |-> 0] :
        t \in types, h \in SUBSET Fields, x \in MsVals, e \in BOOLEAN,
        i \in IsecVals, g \in TgVals }

VersionedMsgs(types) ==
    { [type |-> t, config |-> "ok", has |-> h, ms |-> 0,
       en |-> IF "enabled" \in h THEN e ELSE FALSE, isec |-> 0, tg |-> <<>>,
       hasVer |-> TRUE, ver |-> v] :
        t \in types, h \in SUBSET {"enabled"}, e \in BOOLEAN, v \in VerVals }

\* messages without a config key, or with one that does not decode
PlainMsgs(types) ==
    { [type |-> t, config |-> k, has |-> {}, ms |-> 0, en |-> FALSE, isec |-> 0,
       tg |-> <<>>, hasVer |-> hv, ver |-> IF hv THEN v ELSE 0] :
        t \in types, k \in {"absent", "bad"}, hv \in BOOLEAN, v \in VerVals }

\* Every message of the given types the model draws from.
Msgs(types) == ConfigMsgs(types) \cup VersionedMsgs(types) \cup PlainMsgs(types)

NoMsg ==
    [type |-> "none", config |-> "absent", has |-> {}, ms |-> 0, en |-> FALSE,
     isec |-> 0, tg |-> <<>>, hasVer |-> FALSE, ver |-> 0]

\* The messages the remote sends in the session model: no configuration,
\* ping enabled with one target, ping disabled and nothing else.
SessionMsgs(types) ==
    { m \in Msgs(types) :
        \/ m.config = "absent" /\ ~m.hasVer
        \/ /\ m.config = "ok" /\ m.has = {"enabled", "interval_sec", "targets"}
           /\ m.en /\ m.isec = 10 /\ m.tg = <<1>> /\ ~m.hasVer
        \/ m.config = "ok" /\ m.has = {"enabled"} /\ ~m.en /\ ~m.hasVer }

\* json.Unmarshal of the config object into the anonymous struct c: a key
\* that is absent leaves the zero value; absent targets leave a nil slice.
Decode(m) ==
    [MetricsIntervalMS |-> IF "metrics_interval_ms" \in m.has THEN m.ms ELSE 0,
     Enabled |-> IF "enabled" \in m.has THEN m.en ELSE FALSE,
     IntervalSec |-> IF "interval_sec" \in m.has THEN m.isec ELSE 0,
     TargetsNil |-> "targets" \notin m.has,
     Targets |-> IF "targets" \in m.has THEN m.tg ELSE <<>>]

\* ver: m["config_version"].(float64) converted, 0 when absent
Version(m) == IF m.hasVer THEN m.ver ELSE 0

\* Agent.applyConfigFromMessage: the overlay after message m is applied to r.
\* ApplyConfig with the numeric fields overwritten even when not positive
ApplyConfigNoGuard(r, m) ==
    IF m.config # "ok" THEN r
    ELSE LET c == Decode(m)
             ver == Version(m)
         IN [MetricsIntervalMS |-> c.MetricsIntervalMS,
             TCPPingEnabled |-> c.Enabled,
             TCPPingIntervalSec |-> c.IntervalSec,
             TCPPingTargets |-> IF ~c.TargetsNil THEN c.Targets ELSE r.TCPPingTargets,
             ConfigVersion |-> IF ver > 0 THEN ver ELSE r.ConfigVersion]

ApplyConfig(r, m) ==
    IF m.config # "ok" THEN r
    ELSE LET c == Decode(m)
             ver == Version(m)
         IN [MetricsIntervalMS |->
                 IF c.MetricsIntervalMS > 0 THEN c.MetricsIntervalMS ELSE r.MetricsIntervalMS,
             TCPPingEnabled |-> c.Enabled,
             TCPPingIntervalSec |->
                 IF c.IntervalSec > 0 THEN c.IntervalSec ELSE r.TCPPingIntervalSec,
             TCPPingTargets |-> IF ~c.TargetsNil THEN c.Targets ELSE r.TCPPingTargets,
             ConfigVersion |-> IF ver > 0 THEN ver ELSE r.ConfigVersion]

\* Agent.getTCPPing: enabled, interval and targets as the tcpping loop sees them.
GetTCPPing ==
    [enabled |-> rt.TCPPingEnabled \/ cfg.TCPPingEnabled,
     interval |-> IF rt.TCPPingIntervalSec <= 0 THEN cfg.TCPPingIntervalSec
                  ELSE rt.TCPPingIntervalSec,
     targets |-> rt.TCPPingTargets]

\* ------------------------------------------------------------ frame writes
FrameTypes == {"hello", "ping", "pong", "close", "metrics", "tcpping_batch", "config_ack"}

\* Conn.writeFrame on connection c: the frame reaches the wire when the
\* connection is open; on a closed connection the write fails and the error
\* is dropped by every caller but the hello write.  Only the connection of
\* the attempt in progress can be open: runOnce closes its connection when
\* it returns.
FirstAfter(c, typ) ==
    IF connOpen[c] /\ c = nconn /\ firstFrame = "none" THEN typ ELSE firstFrame


\* a stamped message (metrics, tcpping_batch) written on connection c; acked
\* records whether an acknowledgment had been read on c by then
WireAfter(c, typ, n) ==
    IF connOpen[c]
    THEN Append(wire, [conn |-> c, type |-> typ, seq |-> n, acked |-> seenReady[c]])
    ELSE wire

\* SeqAdd reading the counter without adding to it
SeqAddStale(s) == s

\* a.seq.Add(1)
SeqAdd(s) == s + 1

\* ----------------------------------------------------------------- recvLoop
\* recvLoop after a message is handled: the top of the loop returns on
\* ctx.Done or stopCh, else sets the read deadline and blocks in ReadMessage
RecvAgain(c) == IF ctxDone[c] \/ stopped THEN "done" ELSE "read"

\* ------------------------------------------------------------- metrics loop
\* top of the metrics loop: return on ctx.Done or stopCh, else arm the timer
MetricsAgain(c) == IF ctxDone[c] \/ stopped THEN "done" ELSE "timer"

\* GetMetricsInterval reading the static default only
GetMetricsIntervalStatic == cfg.MetricsIntervalMS

\* Agent.getMetricsInterval, in ms: the overlay's interval when positive,
\* else the static default
GetMetricsInterval ==
    IF rt.MetricsIntervalMS <= 0 THEN cfg.MetricsIntervalMS ELSE rt.MetricsIntervalMS

\* interval := a.getMetricsInterval() when the loop goes on to arm its timer
IntervalAgain(c) == IF MetricsAgain(c) = "timer" THEN GetMetricsInterval ELSE 0

\* recvErr <- e by recvLoop of connection c.  Once runOnce has returned
\* nobody receives from the channel again: what it holds is not kept.
SendErr(c, e) == [recvErr EXCEPT ![c] = IF ctxDone[c] THEN "none" ELSE e]

\* the recvErr channel when runOnce returns without receiving from it
Abandoned(c) == [recvErr EXCEPT ![c] = "none"]

\* ------------------------------------------------------------- config_ack
\* no config_ack written yet
NoAck == [type |-> "none", config_version |-> 0, ok |-> FALSE]

\* the config_ack recvLoop builds after applying a push: config_version is
\* a.getConfigVersion(), the version of the overlay r at that moment
ConfigAck(r) == [type |-> "config_ack", config_version |-> r.ConfigVersion, ok |-> TRUE]

\* PushAck built from the overlay as it was before the push was applied
PushAckBefore(before, after) == ConfigAck(before)

\* case "config_push": the ack is built after applyConfigFromMessage has
\* returned, from the overlay it left
PushAck(before, after) == ConfigAck(after)

\* -------------------------------------------------------- ws frame codec
\* A payload of n bytes is kept as its length and its first HeadLen bytes;
\* every byte-wise step of the codec acts on those bytes.
HeadLen == 5

MaxFrameSize == 33554432

Bytes == 0..255

\* a ^ b on bytes
RECURSIVE Xor(_, _, _)
Xor(a, b, bits) ==
    IF bits = 0 THEN 0
    ELSE ((a + b) % 2) + 2 * Xor(a \div 2, b \div 2, bits - 1)

\* n >> k for 0 <= n < 2^31
Shr(n, k) == IF k >= 31 THEN 0 ELSE n \div (2 ^ k)

\* byte(x)
Byte(x) == x % 256

\* the payload of n bytes whose i-th byte is the pattern's
Payload(n, pat) ==
    [len |-> n, head |-> [i \in 1..Min(n, HeadLen) |-> Byte(pat * 37 + i * 91)]]

\* payload[i] ^ maskKey[i%4], for every byte kept (offsets count from 0)
Mask(payload, maskKey) ==
    [len |-> payload.len,
     head |-> [i \in 1..Len(payload.head) |->
                  Xor(payload.head[i], maskKey[((i - 1) % 4) + 1], 8)]]

\* Header with the single-byte length form used up to 126 bytes
HeaderShortTo126(opcode, n, maskKey) ==
    LET finOpcode == 128 + (opcode % 16)
        lenBytes ==
            IF n <= 126 THEN <<128 + n>>
            ELSE IF n <= 65535 THEN <<128 + 126, Byte(Shr(n, 8)), Byte(n)>>
            ELSE <<128 + 127>> \o [i \in 1..8 |-> Byte(Shr(n, 8 * (8 - i)))]
    IN <<finOpcode>> \o lenBytes \o maskKey

\* writeFrame: the header it builds, the mask key included
Header(opcode, n, maskKey) ==
    LET finOpcode == 128 + (opcode % 16)
        lenBytes ==
            IF n <= 125 THEN <<128 + n>>
            ELSE IF n <= 65535 THEN <<128 + 126, Byte(Shr(n, 8)), Byte(n)>>
            ELSE <<128 + 127>> \o [i \in 1..8 |-> Byte(Shr(n, 8 * (8 - i)))]
    IN <<finOpcode>> \o lenBytes \o maskKey

\* WriteClose: the payload of a close frame, code and reason
ClosePayload(code, reason) ==
    [len |-> 2 + Len(reason),
     head |-> SubSeq(<<Byte(Shr(code, 8)), Byte(code)>> \o reason, 1,
                     Min(2 + Len(reason), HeadLen))]

\* the 64-bit extended length as int64: negative values are kept as -1 and
\* values of 2^26 and more as 2^26
Length64(ext) ==
    IF ext[1] >= 128 THEN -1
    ELSE IF ext[1] # 0 \/ ext[2] # 0 \/ ext[3] # 0 \/ ext[4] # 0 \/ ext[5] >= 4
    THEN 2 ^ 26
    ELSE ((ext[5] * 256 + ext[6]) * 256 + ext[7]) * 256 + ext[8]

\* TooLarge comparing against the maximum only
TooLargeNoSign(length) == length > MaxFrameSize

\* readFrame: the declared length is negative as int64 or above 32 MiB
TooLarge(length) == length < 0 \/ length > MaxFrameSize

\* ReadFrame without the check of FIN
ReadFrameNoFin(hdr, body) ==
    LET b1 == hdr[1]
        b2 == hdr[2]
        fin == b1 >= 128
        opcode == b1 % 16
        masked == b2 >= 128
        code == b2 % 128
        extLen == IF code = 126 THEN 2 ELSE IF code = 127 THEN 8 ELSE 0
        ext == SubSeq(hdr, 3, 2 + extLen)
        length == IF code = 126 THEN ext[1] * 256 + ext[2]
                  ELSE IF code = 127 THEN Length64(ext)
                  ELSE code
        maskKey == SubSeq(hdr, 3 + extLen, 6 + extLen)
        rejected == [op |-> 0, payload |-> [len |-> 0, head |-> <<>>]]
    IN IF TooLarge(length)
       THEN rejected @@ [err |-> "too_large", alloc |-> 0, bodyRead |-> 0]
       ELSE IF body.len < length
       THEN rejected @@ [err |-> "io", alloc |-> length, bodyRead |-> body.len]
       ELSE [op |-> opcode,
             payload |-> IF masked
                         THEN Mask([len |-> length,
                                    head |-> SubSeq(body.head, 1, Min(length, HeadLen))],
                                   maskKey)
                         ELSE [len |-> length,
                               head |-> SubSeq(body.head, 1, Min(length, HeadLen))],
             err |-> "nil", alloc |-> length, bodyRead |-> length]

\* readFrame on a frame whose header bytes are hdr and whose remaining
\* bytes are body.  alloc is the size of the payload buffer made, bodyRead
\* the number of body bytes read into it.
ReadFrame(hdr, body) ==
    LET b1 == hdr[1]
        b2 == hdr[2]
        fin == b1 >= 128
        opcode == b1 % 16
        masked == b2 >= 128
        code == b2 % 128
        extLen == IF code = 126 THEN 2 ELSE IF code = 127 THEN 8 ELSE 0
        ext == SubSeq(hdr, 3, 2 + extLen)
        length == IF code = 126 THEN ext[1] * 256 + ext[2]
                  ELSE IF code = 127 THEN Length64(ext)
                  ELSE code
        maskKey == SubSeq(hdr, 3 + extLen, 6 + extLen)
        rejected == [op |-> 0, payload |-> [len |-> 0, head |-> <<>>]]
    IN IF TooLarge(length)
       THEN rejected @@ [err |-> "too_large", alloc |-> 0, bodyRead |-> 0]
       ELSE IF body.len < length
       THEN rejected @@ [err |-> "io", alloc |-> length, bodyRead |-> body.len]
       ELSE IF ~fin
       THEN rejected @@ [err |-> "fragmented", alloc |-> length, bodyRead |-> length]
       ELSE [op |-> opcode,
             payload |-> IF masked
                         THEN Mask([len |-> length,
                                    head |-> SubSeq(body.head, 1, Min(length, HeadLen))],
                                   maskKey)
                         ELSE [len |-> length,
                               head |-> SubSeq(body.head, 1, Min(length, HeadLen))],
             err |-> "nil", alloc |-> length, bodyRead |-> length]

\* ------------------------------------------------------- inbound frames
EmptyPayload == [len |-> 0, head |-> <<>>]

\* The length bytes of an inbound header (the 7-bit code, then the extended
\* length); fits says that the declared length is at most 32 MiB, and n is
\* that length when it fits.  The last two declare 2^32 and 2^63 + 1.
InLengths ==
    { [bytes |-> <<0>>, fits |-> TRUE, n |-> 0],
      [bytes |-> <<5>>, fits |-> TRUE, n |-> 5],
      [bytes |-> <<126, 0, 126>>, fits |-> TRUE, n |-> 126],
      [bytes |-> <<127, 0, 0, 0, 0, 0, 1, 0, 0>>, fits |-> TRUE, n |-> 65536],
      [bytes |-> <<127, 0, 0, 0, 0, 2, 0, 0, 0>>, fits |-> TRUE, n |-> MaxFrameSize],
      [bytes |-> <<127, 0, 0, 0, 0, 2, 0, 0, 1>>, fits |-> FALSE, n |-> 0],
      [bytes |-> <<127, 0, 0, 0, 1, 0, 0, 0, 0>>, fits |-> FALSE, n |-> 0],
      [bytes |-> <<127, 128, 0, 0, 0, 0, 0, 0, 1>>, fits |-> FALSE, n |-> 0] }

InOpcodes == {1, 2, 8, 9, 10}

\* An inbound frame as the remote sends it: hdr and body are the bytes on
\* the stream; fin, opcode, fits and plain say what the remote put there
\* (plain: the payload before masking).  A frame that fits is followed by
\* all of its payload; after the header of one that does not, five more
\* bytes are on the stream.
InFrame(fin, opcode, key, l, pat) ==
    LET plain == IF l.fits THEN Payload(l.n, pat) ELSE Payload(5, pat)
    IN [hdr |-> <<(IF fin THEN 128 ELSE 0) + opcode,
                  (IF key # <<>> THEN 128 ELSE 0) + l.bytes[1]>>
                \o Tail(l.bytes) \o key,
        body |-> IF key # <<>> THEN Mask(plain, key) ELSE plain,
        fin |-> fin, opcode |-> opcode, fits |-> l.fits, plain |-> plain,
        looped |-> FALSE]

\* unmasked frames of every length, and masked ones of five bytes
InFrames ==
    { InFrame(fin, op, <<>>, l, 3) : fin \in BOOLEAN, op \in InOpcodes, l \in InLengths }
    \cup
    { InFrame(fin, op, <<1, 2, 3, 4>>, [bytes |-> <<5>>, fits |-> TRUE, n |-> 5], 3) :
        fin \in BOOLEAN, op \in InOpcodes }

\* before the first readFrame call; before the first return of ReadMessage
NoRead == [n |-> 0]

NoRet == [err |-> "none"]

\* ------------------------------------------------- concurrent writeFrame
Writers == 1..MaxWriters

NoFrame == [opcode |-> 0]

\* ---------------------------------------------------------------- ws.Dial
\* Dial has not been called
NoDial == [pc |-> "idle"]

\* both locks free, nobody reading a.cfg
NoLocks == [mu |-> "free", muR |-> {}, rtMu |-> "free", rtR |-> {}, cfgR |-> {}]

\* ------------------------------------------------------------------- Init
Init ==
    /\ stopped = FALSE
    /\ reconnectCh = 0
    /\ cfg \in Configs
    /\ rt = ZeroRt
    /\ seq = 0
    /\ runPc = "loop"
    /\ backoff = InitialBackoff
    /\ nconn = 0
    /\ lastErr = "none"
    /\ connOpen = [c \in Conns |-> FALSE]
    /\ ctxDone = [c \in Conns |-> FALSE]
    /\ watcher = [c \in Conns |-> "idle"]
    /\ keepalive = [c \in Conns |-> "idle"]
    /\ recv = [c \in Conns |-> "idle"]
    /\ seenReady = [c \in Conns |-> FALSE]
    /\ ready = [c \in Conns |-> FALSE]
    /\ recvErr = [c \in Conns |-> "none"]
    /\ metricsPc = [c \in Conns |-> "idle"]
    /\ mseq = [c \in Conns |-> 0]
    /\ minterval = [c \in Conns |-> 0]
    /\ tcpPc = [c \in Conns |-> "idle"]
    /\ pLocal = [c \in Conns |-> [interval |-> 0, targets |-> <<>>]]
    /\ pseq = [c \in Conns |-> 0]
    /\ firstFrame = "none"
    /\ wire = <<>>
    /\ nsleep = 0
    /\ lastMsg = NoMsg
    /\ prevRt = ZeroRt
    /\ lastAck = NoAck
    /\ ncollect = 0
    /\ wmu = 0
    /\ wpc = [w \in Writers |-> "idle"]
    /\ wframe = [w \in Writers |-> NoFrame]
    /\ stream = <<>>
    /\ inbox = <<>>
    /\ nin = 0
    /\ rpc = "read"
    /\ rf = NoRead
    /\ ret = NoRet
    /\ replies = <<>>
    /\ dial = NoDial
    /\ locks = NoLocks

\* ------------------------------------------------------- Stop, ReloadConfig
\* Agent.Stop: closes stopCh once; later calls change nothing.
Stop ==
    /\ stopped' = TRUE
    /\ UNCHANGED <<reconnectCh, cfg, rt, seq>>
    /\ UNCHANGED <<runVars, connVars, watchVars, recvVars, loopVars, wireVars, histVars>>
    /\ UNCHANGED <<codecVars, dialVars, lockVars, ncollect>>

\* ReloadConfig clearing the runtime overlay when the file is loaded
ReloadConfigResetsOverlay ==
    /\ \E loaded \in BOOLEAN, newCfg \in Configs :
        IF loaded
        THEN /\ cfg' = newCfg
             /\ reconnectCh' = 1
             /\ rt' = ZeroRt
        ELSE UNCHANGED <<cfg, reconnectCh, rt>>
    /\ UNCHANGED <<stopped, seq>>
    /\ UNCHANGED <<runVars, connVars, watchVars, recvVars, loopVars, wireVars, histVars>>
    /\ UNCHANGED <<codecVars, dialVars, lockVars, ncollect>>

\* Agent.ReloadConfig: config.Load fails and nothing changes, or a.cfg is
\* replaced and a reconnect signal is sent without blocking (dropped when
\* one is already buffered).
ReloadConfig ==
    /\ \E loaded \in BOOLEAN, newCfg \in Configs :
        IF loaded
        THEN /\ cfg' = newCfg
             /\ reconnectCh' = 1
        ELSE UNCHANGED <<cfg, reconnectCh>>
    /\ UNCHANGED <<stopped, rt, seq>>
    /\ UNCHANGED <<runVars, connVars, watchVars, recvVars, loopVars, wireVars, histVars>>
    /\ UNCHANGED <<codecVars, dialVars, lockVars, ncollect>>

\* ---------------------------------------------------------------- Agent.Run
\* NextBackoff without the cap
NextBackoffUncapped(b) == 2 * b

\* backoff after a sleep: doubled, capped at 30s
NextBackoff(b) == IF b < BackoffCap THEN Min(2 * b, BackoffCap) ELSE b

\* runOnce returns err on the attempt that holds connection c (0: Dial gave
\* none): the deferred cancel (when the session context exists) and
\* conn.Close run, then Run resets the backoff and loops on nil, or starts
\* the backoff sleep on an error.
\* EndAttempt with Run giving up on an authentication error
EndAttemptFatalAuth(c, err, hasCtx) ==
    /\ lastErr' = err
    /\ connOpen' = IF c \in Conns THEN [connOpen EXCEPT ![c] = FALSE] ELSE connOpen
    /\ ctxDone' = IF hasCtx THEN [ctxDone EXCEPT ![c] = TRUE] ELSE ctxDone
    /\ IF err = "nil"
       THEN /\ backoff' = InitialBackoff
            /\ runPc' = "loop"
            /\ nsleep' = nsleep
       ELSE /\ backoff' = backoff
            /\ runPc' = IF err = "auth" THEN "done" ELSE "sleep"
            /\ nsleep' = nsleep + 1
    /\ UNCHANGED nconn

EndAttempt(c, err, hasCtx) ==
    /\ lastErr' = err
    /\ connOpen' = IF c \in Conns THEN [connOpen EXCEPT ![c] = FALSE] ELSE connOpen
    /\ ctxDone' = IF hasCtx THEN [ctxDone EXCEPT ![c] = TRUE] ELSE ctxDone
    /\ IF err = "nil"
       THEN /\ backoff' = InitialBackoff
            /\ runPc' = "loop"
            /\ nsleep' = nsleep
       ELSE /\ backoff' = backoff
            /\ runPc' = "sleep"
            /\ nsleep' = nsleep + 1
    /\ UNCHANGED nconn

\* top of Run's loop with stopCh closed: Run returns nil
RunReturn ==
    /\ runPc = "loop"
    /\ stopped
    /\ runPc' = "done"
    /\ UNCHANGED <<backoff, nconn, lastErr>>
    /\ UNCHANGED <<agentVars, connVars, watchVars, recvVars, loopVars, wireVars, histVars>>
    /\ UNCHANGED <<codecVars, dialVars, lockVars, ncollect>>

\* top of Run's loop, runOnce: ws.Dial fails and
\* runOnce returns the error (at most limit times in a run)
DialFail(limit) ==
    /\ runPc = "loop"
    /\ ~stopped
    /\ nsleep < limit
    /\ EndAttempt(0, "dial", FALSE)
    /\ UNCHANGED <<agentVars, watchVars, recvVars, loopVars, wireVars>>
    /\ UNCHANGED <<lastMsg, prevRt, lastAck>>
    /\ UNCHANGED <<codecVars, dialVars, lockVars, ncollect>>

\* DialOk without the stop check at the top of Run's loop
DialOkNoStopCheck(limit) ==
    /\ runPc = "loop"
    /\ nconn < limit
    /\ lastErr' = "none"
    /\ nconn' = nconn + 1
    /\ connOpen' = [connOpen EXCEPT ![nconn + 1] = TRUE]
    /\ watcher' = [watcher EXCEPT ![nconn + 1] = "wait"]
    /\ keepalive' = [keepalive EXCEPT ![nconn + 1] = "run"]
    /\ runPc' = "hello"
    /\ firstFrame' = "none"
    /\ UNCHANGED <<backoff, ctxDone, wire>>
    /\ UNCHANGED <<agentVars, recvVars, loopVars, histVars>>
    /\ UNCHANGED <<codecVars, dialVars, lockVars, ncollect>>

\* top of Run's loop, runOnce: ws.Dial succeeds and the reconnect watcher and
\* the keepalive goroutine start (at most limit connections in a run).  The
\* snapshot cfg := a.getCfg() feeds the URL and the fields of the messages
\* only, which the model does not carry.
DialOk(limit) ==
    /\ runPc = "loop"
    /\ ~stopped
    /\ nconn < limit
    /\ lastErr' = "none"
    /\ nconn' = nconn + 1
    /\ connOpen' = [connOpen EXCEPT ![nconn + 1] = TRUE]
    /\ watcher' = [watcher EXCEPT ![nconn + 1] = "wait"]
    /\ keepalive' = [keepalive EXCEPT ![nconn + 1] = "run"]
    /\ runPc' = "hello"
    /\ firstFrame' = "none"
    /\ UNCHANGED <<backoff, ctxDone, wire>>
    /\ UNCHANGED <<agentVars, recvVars, loopVars, histVars>>
    /\ UNCHANGED <<codecVars, dialVars, lockVars, ncollect>>

\* writeJSON(conn, hello): on success recvLoop starts and runOnce waits for
\* ready; on a write error ("closed": the connection was closed locally,
\* "write": the stream fails) runOnce returns it.
Hello ==
    /\ runPc = "hello"
    /\ \E ok \in BOOLEAN :
        IF ~connOpen[nconn]
        THEN /\ EndAttempt(nconn, "closed", FALSE)
             /\ UNCHANGED <<firstFrame, recv>>
        ELSE IF ok
        THEN /\ firstFrame' = FirstAfter(nconn, "hello")
             /\ recv' = [recv EXCEPT ![nconn] = RecvAgain(nconn)]
             /\ runPc' = "waitReady"
             /\ UNCHANGED <<backoff, nconn, lastErr, connVars, nsleep>>
        ELSE /\ EndAttempt(nconn, "write", FALSE)
             /\ UNCHANGED <<firstFrame, recv>>
    /\ UNCHANGED <<agentVars, watchVars, seenReady, ready, recvErr, loopVars, wire>>
    /\ UNCHANGED <<lastMsg, prevRt, lastAck>>
    /\ UNCHANGED <<codecVars, dialVars, lockVars, ncollect>>

\* RunReady not waiting for the ready channel
RunReadyEarly ==
    /\ runPc = "waitReady"
    /\ metricsPc' = [metricsPc EXCEPT ![nconn] = MetricsAgain(nconn)]
    /\ minterval' = [minterval EXCEPT ![nconn] = IntervalAgain(nconn)]
    /\ tcpPc' = [tcpPc EXCEPT ![nconn] = "top"]
    /\ runPc' = "active"
    /\ UNCHANGED <<backoff, nconn, lastErr, mseq, pLocal, pseq>>
    /\ UNCHANGED <<agentVars, connVars, watchVars, recvVars, wireVars>>
    /\ UNCHANGED <<nsleep, lastMsg, prevRt, lastAck>>
    /\ UNCHANGED <<codecVars, dialVars, lockVars, ncollect>>

\* the select after recvLoop is started, case <-ready: the metrics loop and
\* the tcpping loop start and runOnce blocks in its final select
RunReady ==
    /\ runPc = "waitReady"
    /\ ready[nconn]
    /\ metricsPc' = [metricsPc EXCEPT ![nconn] = MetricsAgain(nconn)]
    /\ minterval' = [minterval EXCEPT ![nconn] = IntervalAgain(nconn)]
    /\ tcpPc' = [tcpPc EXCEPT ![nconn] = "top"]
    /\ runPc' = "active"
    /\ UNCHANGED <<backoff, nconn, lastErr, mseq, pLocal, pseq>>
    /\ UNCHANGED <<agentVars, connVars, watchVars, recvVars, wireVars>>
    /\ UNCHANGED <<nsleep, lastMsg, prevRt, lastAck>>
    /\ UNCHANGED <<codecVars, dialVars, lockVars, ncollect>>

\* either select of runOnce, case err := <-recvErr
RunRecvErr ==
    /\ runPc \in {"waitReady", "active"}
    /\ recvErr[nconn] # "none"
    /\ recvErr' = [recvErr EXCEPT ![nconn] = "none"]
    /\ EndAttempt(nconn, recvErr[nconn], TRUE)
    /\ UNCHANGED <<agentVars, watchVars, recv, seenReady, ready, loopVars, wireVars>>
    /\ UNCHANGED <<lastMsg, prevRt, lastAck>>
    /\ UNCHANGED <<codecVars, dialVars, lockVars, ncollect>>

\* the select waiting for ready, case <-time.After(10s)
RunTimeout ==
    /\ runPc = "waitReady"
    /\ EndAttempt(nconn, "timeout", TRUE)
    /\ recvErr' = Abandoned(nconn)
    /\ UNCHANGED <<agentVars, watchVars, recv, seenReady, ready, loopVars, wireVars>>
    /\ UNCHANGED <<lastMsg, prevRt, lastAck>>
    /\ UNCHANGED <<codecVars, dialVars, lockVars, ncollect>>

\* either select of runOnce, case <-a.stopCh: runOnce returns nil
RunStopped ==
    /\ runPc \in {"waitReady", "active"}
    /\ stopped
    /\ EndAttempt(nconn, "nil", TRUE)
    /\ recvErr' = Abandoned(nconn)
    /\ UNCHANGED <<agentVars, watchVars, recv, seenReady, ready, loopVars, wireVars>>
    /\ UNCHANGED <<lastMsg, prevRt, lastAck>>
    /\ UNCHANGED <<codecVars, dialVars, lockVars, ncollect>>

\* SleepTimer returning from Run when the attempt failed on authentication
SleepTimerGivesUp ==
    /\ runPc = "sleep"
    /\ backoff' = NextBackoff(backoff)
    /\ runPc' = IF lastErr = "auth" THEN "done" ELSE "loop"
    /\ lastErr' = "none"
    /\ UNCHANGED nconn
    /\ UNCHANGED <<agentVars, connVars, watchVars, recvVars, loopVars, wireVars, histVars>>
    /\ UNCHANGED <<codecVars, dialVars, lockVars, ncollect>>

\* the backoff sleep of Run, case <-time.After(backoff): the backoff is
\* doubled up to the cap and the loop goes on
SleepTimer ==
    /\ runPc = "sleep"
    /\ backoff' = NextBackoff(backoff)
    /\ runPc' = "loop"
    /\ lastErr' = "none"
    /\ UNCHANGED nconn
    /\ UNCHANGED <<agentVars, connVars, watchVars, recvVars, loopVars, wireVars, histVars>>
    /\ UNCHANGED <<codecVars, dialVars, lockVars, ncollect>>

\* the backoff sleep of Run, case <-a.stopCh: Run returns nil
SleepStopped ==
    /\ runPc = "sleep"
    /\ stopped
    /\ runPc' = "done"
    /\ UNCHANGED <<backoff, nconn, lastErr>>
    /\ UNCHANGED <<agentVars, connVars, watchVars, recvVars, loopVars, wireVars, histVars>>
    /\ UNCHANGED <<codecVars, dialVars, lockVars, ncollect>>

\* ------------------------------------------------------- reconnect watcher
\* select case <-a.reconnectCh: the signal is taken from the channel, then
\* conn.WriteClose(1000, "reload") and conn.Close()
WatcherFire(c) ==
    /\ watcher[c] = "wait"
    /\ reconnectCh = 1
    /\ reconnectCh' = 0
    /\ firstFrame' = FirstAfter(c, "close")
    /\ connOpen' = [connOpen EXCEPT ![c] = FALSE]
    /\ watcher' = [watcher EXCEPT ![c] = "done"]
    /\ UNCHANGED <<stopped, cfg, rt, seq, ctxDone, keepalive, wire>>
    /\ UNCHANGED <<runVars, recvVars, loopVars, histVars>>
    /\ UNCHANGED <<codecVars, dialVars, lockVars, ncollect>>

\* select case <-a.stopCh
WatcherStop(c) ==
    /\ watcher[c] = "wait"
    /\ stopped
    /\ watcher' = [watcher EXCEPT ![c] = "done"]
    /\ UNCHANGED keepalive
    /\ UNCHANGED <<agentVars, runVars, connVars, recvVars, loopVars, wireVars, histVars>>
    /\ UNCHANGED <<codecVars, dialVars, lockVars, ncollect>>

\* ---------------------------------------------------------------- keepalive
\* the 30s ticker fires: conn.WritePing.  The first tick is 30s after Dial
\* returned, so none falls between Dial and the hello write that follows it.
KeepaliveTick(c) ==
    /\ keepalive[c] = "run"
    /\ ~(runPc = "hello" /\ nconn = c)
    /\ firstFrame' = FirstAfter(c, "ping")
    /\ UNCHANGED wire
    /\ UNCHANGED <<agentVars, runVars, connVars, watchVars, recvVars, loopVars, histVars>>
    /\ UNCHANGED <<codecVars, dialVars, lockVars, ncollect>>

\* select case <-a.stopCh
KeepaliveStop(c) ==
    /\ keepalive[c] = "run"
    /\ stopped
    /\ keepalive' = [keepalive EXCEPT ![c] = "done"]
    /\ UNCHANGED watcher
    /\ UNCHANGED <<agentVars, runVars, connVars, recvVars, loopVars, wireVars, histVars>>
    /\ UNCHANGED <<codecVars, dialVars, lockVars, ncollect>>

\* ReadMessage returns an error: "closed" when the connection was closed
\* locally (use of closed network connection), else "read" (the stream
\* failed or the 90s read deadline passed).  The error is sent on recvErr
\* and recvLoop returns.
RecvReadErr(c) ==
    /\ recv[c] = "read"
    /\ recvErr[c] = "none"
    /\ recvErr' = SendErr(c, IF connOpen[c] THEN "read" ELSE "closed")
    /\ recv' = [recv EXCEPT ![c] = "done"]
    /\ UNCHANGED <<seenReady, ready>>
    /\ UNCHANGED <<agentVars, runVars, connVars, watchVars, loopVars, wireVars, histVars>>
    /\ UNCHANGED <<codecVars, dialVars, lockVars, ncollect>>

\* ReadMessage reads a close frame: it writes the close reply and returns
\* io.EOF, which recvLoop sends on recvErr
RecvClose(c) ==
    /\ recv[c] = "read"
    /\ connOpen[c]
    /\ firstFrame' = FirstAfter(c, "close")
    /\ recvErr[c] = "none"
    /\ recvErr' = SendErr(c, "eof")
    /\ recv' = [recv EXCEPT ![c] = "done"]
    /\ UNCHANGED <<seenReady, ready, wire>>
    /\ UNCHANGED <<agentVars, runVars, connVars, watchVars, loopVars, histVars>>
    /\ UNCHANGED <<codecVars, dialVars, lockVars, ncollect>>

\* ReadMessage reads a ping frame (it writes a pong and reads on) or a pong
\* frame (it reads on)
RecvControl(c) ==
    /\ recv[c] = "read"
    /\ connOpen[c]
    /\ \E op \in {"ping", "pong"} :
        IF op = "ping"
        THEN firstFrame' = FirstAfter(c, "pong")
        ELSE UNCHANGED firstFrame
    /\ UNCHANGED wire
    /\ UNCHANGED <<agentVars, runVars, connVars, watchVars, recvVars, loopVars, histVars>>
    /\ UNCHANGED <<codecVars, dialVars, lockVars, ncollect>>

\* a frame that is not text, a body that is not JSON, or an unknown type
RecvIgnored(c) ==
    /\ recv[c] = "read"
    /\ connOpen[c]
    /\ recv' = [recv EXCEPT ![c] = RecvAgain(c)]
    /\ UNCHANGED <<seenReady, ready, recvErr>>
    /\ UNCHANGED <<agentVars, runVars, connVars, watchVars, loopVars, wireVars, histVars>>
    /\ UNCHANGED <<codecVars, dialVars, lockVars, ncollect>>

\* RecvHello closing ready without looking at seenReady: close of a closed
\* channel panics
RecvHelloNoGuard(c, m) ==
    /\ recv[c] = "read"
    /\ connOpen[c]
    /\ rt' = ApplyConfig(rt, m)
    /\ seenReady' = [seenReady EXCEPT ![c] = TRUE]
    /\ ready' = [ready EXCEPT ![c] = TRUE]
    /\ recv' = [recv EXCEPT ![c] = IF ready[c] THEN "panic" ELSE RecvAgain(c)]
    /\ UNCHANGED <<stopped, reconnectCh, cfg, seq, recvErr, nsleep>>
    /\ UNCHANGED <<runVars, connVars, watchVars, loopVars, wireVars>>
    /\ UNCHANGED <<codecVars, dialVars, lockVars, ncollect>>

\* case "hello_ok", "hello_ack": apply the configuration; if !seenReady,
\* set it and close ready
RecvHello(c, m) ==
    /\ recv[c] = "read"
    /\ connOpen[c]
    /\ rt' = ApplyConfig(rt, m)
    /\ IF ~seenReady[c]
       THEN /\ seenReady' = [seenReady EXCEPT ![c] = TRUE]
            /\ ready' = [ready EXCEPT ![c] = TRUE]
       ELSE UNCHANGED <<seenReady, ready>>
    /\ recv' = [recv EXCEPT ![c] = RecvAgain(c)]
    /\ UNCHANGED <<stopped, reconnectCh, cfg, seq, recvErr, nsleep>>
    /\ UNCHANGED <<runVars, connVars, watchVars, loopVars, wireVars>>
    /\ UNCHANGED <<codecVars, dialVars, lockVars, ncollect>>

\* case "config_push": apply the configuration, write config_ack
RecvPush(c, m) ==
    /\ recv[c] = "read"
    /\ connOpen[c]
    /\ rt' = ApplyConfig(rt, m)
    /\ firstFrame' = FirstAfter(c, "config_ack")
    /\ recv' = [recv EXCEPT ![c] = RecvAgain(c)]
    /\ UNCHANGED <<stopped, reconnectCh, cfg, seq, seenReady, ready, recvErr, wire>>
    /\ UNCHANGED nsleep
    /\ UNCHANGED <<runVars, connVars, watchVars, loopVars>>
    /\ UNCHANGED <<codecVars, dialVars, lockVars, ncollect>>

\* RecvFatal going on to read after it has sent the error
RecvFatalGoesOn(c) ==
    /\ recv[c] = "read"
    /\ connOpen[c]
    /\ recvErr[c] = "none"
    /\ \E e \in {"auth", "kicked"} : recvErr' = SendErr(c, e)
    /\ recv' = [recv EXCEPT ![c] = RecvAgain(c)]
    /\ UNCHANGED <<seenReady, ready>>
    /\ UNCHANGED <<agentVars, runVars, connVars, watchVars, loopVars, wireVars, histVars>>
    /\ UNCHANGED <<codecVars, dialVars, lockVars, ncollect>>

\* case "auth_err" (netprobe.ErrAuth) and case "kick": the error is sent on
\* recvErr and recvLoop returns
RecvFatal(c) ==
    /\ recv[c] = "read"
    /\ connOpen[c]
    /\ recvErr[c] = "none"
    /\ \E e \in {"auth", "kicked"} : recvErr' = SendErr(c, e)
    /\ recv' = [recv EXCEPT ![c] = "done"]
    /\ UNCHANGED <<seenReady, ready>>
    /\ UNCHANGED <<agentVars, runVars, connVars, watchVars, loopVars, wireVars, histVars>>
    /\ UNCHANGED <<codecVars, dialVars, lockVars, ncollect>>

\* MetricsFire taking the sequence number before it looks at Collect's error
MetricsFireStampFirst(c) ==
    /\ metricsPc[c] = "timer"
    /\ seq < MaxSeq
    /\ seq' = SeqAdd(seq)
    /\ \E collected \in BOOLEAN :
        IF collected
        THEN /\ mseq' = [mseq EXCEPT ![c] = SeqAdd(seq)]
             /\ metricsPc' = [metricsPc EXCEPT ![c] = "stamped"]
             /\ minterval' = [minterval EXCEPT ![c] = 0]
        ELSE /\ metricsPc' = [metricsPc EXCEPT ![c] = MetricsAgain(c)]
             /\ minterval' = [minterval EXCEPT ![c] = IntervalAgain(c)]
             /\ UNCHANGED mseq
    /\ UNCHANGED <<stopped, reconnectCh, cfg, rt, tcpPc, pLocal, pseq>>
    /\ UNCHANGED <<runVars, connVars, watchVars, recvVars, wireVars, histVars>>
    /\ UNCHANGED <<codecVars, dialVars, lockVars>>

\* case <-timer.C: Collect; on success take the next sequence number.  The
\* count of collector calls is kept by the specification that observes it.
MetricsFire(c) ==
    /\ metricsPc[c] = "timer"
    /\ \E collected \in BOOLEAN :
        IF collected
        THEN /\ seq < MaxSeq
             /\ seq' = SeqAdd(seq)
             /\ mseq' = [mseq EXCEPT ![c] = SeqAdd(seq)]
             /\ metricsPc' = [metricsPc EXCEPT ![c] = "stamped"]
             /\ minterval' = [minterval EXCEPT ![c] = 0]
        ELSE /\ metricsPc' = [metricsPc EXCEPT ![c] = MetricsAgain(c)]
             /\ minterval' = [minterval EXCEPT ![c] = IntervalAgain(c)]
             /\ UNCHANGED <<seq, mseq>>
    /\ UNCHANGED <<stopped, reconnectCh, cfg, rt, tcpPc, pLocal, pseq>>
    /\ UNCHANGED <<runVars, connVars, watchVars, recvVars, wireVars, histVars>>
    /\ UNCHANGED <<codecVars, dialVars, lockVars>>

\* case <-ctx.Done() / case <-a.stopCh while the timer is armed
MetricsCancel(c) ==
    /\ metricsPc[c] = "timer"
    /\ ctxDone[c] \/ stopped
    /\ metricsPc' = [metricsPc EXCEPT ![c] = "done"]
    /\ minterval' = [minterval EXCEPT ![c] = 0]
    /\ UNCHANGED <<mseq, tcpPc, pLocal, pseq>>
    /\ UNCHANGED <<agentVars, runVars, connVars, watchVars, recvVars, wireVars, histVars>>
    /\ UNCHANGED <<codecVars, dialVars, lockVars, ncollect>>

\* writeJSON(conn, msg) of the metrics message, then the top of the loop
MetricsWrite(c) ==
    /\ metricsPc[c] = "stamped"
    /\ firstFrame' = FirstAfter(c, "metrics")
    /\ wire' = WireAfter(c, "metrics", mseq[c])
    /\ metricsPc' = [metricsPc EXCEPT ![c] = MetricsAgain(c)]
    /\ minterval' = [minterval EXCEPT ![c] = IntervalAgain(c)]
    /\ mseq' = [mseq EXCEPT ![c] = 0]
    /\ UNCHANGED <<tcpPc, pLocal, pseq>>
    /\ UNCHANGED <<agentVars, runVars, connVars, watchVars, recvVars, histVars>>
    /\ UNCHANGED <<codecVars, dialVars, lockVars, ncollect>>

\* ------------------------------------------------------------- tcpping loop
\* the locals of the tcpping loop outside its ticking sub-loop
NoLocal == [interval |-> 0, targets |-> <<>>]

\* top of the loop: return on ctx.Done or stopCh; sleep 2s and retry when
\* ping is off, the interval is not positive or there is no target; else
\* start the ticker with the interval and targets just read
TcpTop(c) ==
    /\ tcpPc[c] = "top"
    /\ IF ctxDone[c] \/ stopped
       THEN /\ tcpPc' = [tcpPc EXCEPT ![c] = "done"]
            /\ UNCHANGED pLocal
       ELSE IF ~GetTCPPing.enabled \/ GetTCPPing.interval <= 0 \/ Len(GetTCPPing.targets) = 0
       THEN UNCHANGED <<tcpPc, pLocal>>
       ELSE /\ tcpPc' = [tcpPc EXCEPT ![c] = "tick"]
            /\ pLocal' = [pLocal EXCEPT ![c] =
                    [interval |-> GetTCPPing.interval, targets |-> GetTCPPing.targets]]
    /\ UNCHANGED <<metricsPc, mseq, minterval, pseq>>
    /\ UNCHANGED <<agentVars, runVars, connVars, watchVars, recvVars, wireVars, histVars>>
    /\ UNCHANGED <<codecVars, dialVars, lockVars, ncollect>>

\* case <-t.C: ping every target read at the top, take the next sequence number
TcpFire(c) ==
    /\ tcpPc[c] = "tick"
    /\ seq < MaxSeq
    /\ seq' = SeqAdd(seq)
    /\ pseq' = [pseq EXCEPT ![c] = SeqAdd(seq)]
    /\ tcpPc' = [tcpPc EXCEPT ![c] = "stamped"]
    /\ UNCHANGED <<stopped, reconnectCh, cfg, rt, metricsPc, mseq, minterval, pLocal>>
    /\ UNCHANGED <<runVars, connVars, watchVars, recvVars, wireVars, histVars>>
    /\ UNCHANGED <<codecVars, dialVars, lockVars, ncollect>>

\* case <-ctx.Done() / case <-a.stopCh in the ticking sub-loop
TcpCancel(c) ==
    /\ tcpPc[c] = "tick"
    /\ ctxDone[c] \/ stopped
    /\ tcpPc' = [tcpPc EXCEPT ![c] = "done"]
    /\ pLocal' = [pLocal EXCEPT ![c] = NoLocal]
    /\ UNCHANGED <<metricsPc, mseq, minterval, pseq>>
    /\ UNCHANGED <<agentVars, runVars, connVars, watchVars, recvVars, wireVars, histVars>>
    /\ UNCHANGED <<codecVars, dialVars, lockVars, ncollect>>

\* default case of the sub-loop: leave it when enabled, the interval or the
\* number of targets changed, else sleep 200ms
TcpPoll(c) ==
    /\ tcpPc[c] = "tick"
    /\ ~ctxDone[c] /\ ~stopped
    /\ IF \/ ~GetTCPPing.enabled
          \/ GetTCPPing.interval # pLocal[c].interval
          \/ Len(GetTCPPing.targets) # Len(pLocal[c].targets)
       THEN /\ tcpPc' = [tcpPc EXCEPT ![c] = "top"]
            /\ pLocal' = [pLocal EXCEPT ![c] = NoLocal]
       ELSE UNCHANGED <<tcpPc, pLocal>>
    /\ UNCHANGED <<metricsPc, mseq, minterval, pseq>>
    /\ UNCHANGED <<agentVars, runVars, connVars, watchVars, recvVars, wireVars, histVars>>
    /\ UNCHANGED <<codecVars, dialVars, lockVars, ncollect>>

\* writeJSON(conn, msg) of the tcpping_batch message: one sample per target
TcpWrite(c) ==
    /\ tcpPc[c] = "stamped"
    /\ firstFrame' = FirstAfter(c, "tcpping_batch")
    /\ wire' = WireAfter(c, "tcpping_batch", pseq[c])
    /\ tcpPc' = [tcpPc EXCEPT ![c] = "tick"]
    /\ pseq' = [pseq EXCEPT ![c] = 0]
    /\ UNCHANGED <<metricsPc, mseq, minterval, pLocal>>
    /\ UNCHANGED <<agentVars, runVars, connVars, watchVars, recvVars, histVars>>
    /\ UNCHANGED <<codecVars, dialVars, lockVars, ncollect>>

\* ------------------------------------------------------------ specification
AckTypes == {"hello_ok", "hello_ack"}
PushTypes == {"config_push"}

\* Steps of a run in which no stop request is made.
Next ==
    \/ ReloadConfig
    \/ DialFail(MaxSleeps)
    \/ DialOk(MaxConns)
    \/ Hello
    \/ RunReady
    \/ RunRecvErr
    \/ RunTimeout
    \/ SleepTimer
    \/ \E c \in Conns : WatcherFire(c)
    \/ \E c \in Conns : KeepaliveTick(c)
    \/ \E c \in Conns : RecvReadErr(c)
    \/ \E c \in Conns : RecvClose(c)
    \/ \E c \in Conns : RecvControl(c)
    \/ \E c \in Conns : RecvIgnored(c)
    \/ \E c \in Conns : \E m \in SessionMsgs(AckTypes) :
            RecvHello(c, m) /\ UNCHANGED <<lastMsg, prevRt, lastAck>>
    \/ \E c \in Conns : \E m \in SessionMsgs(PushTypes) :
            RecvPush(c, m) /\ UNCHANGED <<lastMsg, prevRt, lastAck>>
    \/ \E c \in Conns : RecvFatal(c)
    \/ \E c \in Conns : MetricsFire(c) /\ UNCHANGED ncollect
    \/ \E c \in Conns : MetricsCancel(c)
    \/ \E c \in Conns : MetricsWrite(c)
    \/ \E c \in Conns : TcpTop(c)
    \/ \E c \in Conns : TcpFire(c)
    \/ \E c \in Conns : TcpCancel(c)
    \/ \E c \in Conns : TcpPoll(c)
    \/ \E c \in Conns : TcpWrite(c)

Spec == Init /\ [][Next]_vars

\* The retry model: the controller is unreachable, every Dial fails; a stop
\* request may be made at any time.
NextRetry ==
    \/ Stop
    \/ ReloadConfig
    \/ RunReturn
    \/ DialFail(RetrySleeps)
    \/ SleepTimer
    \/ SleepStopped

SpecRetry == Init /\ [][NextRetry]_vars

\* The overlay model: one connection on which the remote sends every
\* acknowledgment and push of Msgs; the message applied last and the overlay
\* before it are recorded.
NextConfig ==
    \/ DialOk(1)
    \/ Hello
    \/ \E m \in Msgs({"hello_ok"}) :
            RecvHello(1, m) /\ lastMsg' = m /\ prevRt' = rt /\ UNCHANGED lastAck
    \/ \E m \in Msgs(PushTypes) :
            RecvPush(1, m) /\ lastMsg' = m /\ prevRt' = rt /\ UNCHANGED lastAck

\* the static configuration has ping enabled
InitConfig == Init /\ cfg.TCPPingEnabled

SpecConfig == InitConfig /\ [][NextConfig]_vars

\* The shutdown model: one connection, one failed dial, and Stop at any
\* moment; every goroutine that selects on stopCh may then return.
NextStop ==
    \/ Stop
    \/ RunReturn
    \/ DialFail(1)
    \/ DialOk(1)
    \/ Hello
    \/ RunReady
    \/ RunRecvErr
    \/ RunTimeout
    \/ RunStopped
    \/ SleepTimer
    \/ SleepStopped
    \/ \E c \in Conns :
        \/ WatcherStop(c)
        \/ KeepaliveStop(c)
        \/ KeepaliveTick(c)
        \/ RecvReadErr(c)
        \/ RecvClose(c)
        \/ \E m \in SessionMsgs(AckTypes) :
                RecvHello(c, m) /\ UNCHANGED <<lastMsg, prevRt, lastAck>>
        \/ RecvFatal(c)
        \/ MetricsFire(c) /\ UNCHANGED ncollect
        \/ MetricsCancel(c)
        \/ MetricsWrite(c)
        \/ TcpTop(c)
        \/ TcpFire(c)
        \/ TcpCancel(c)
        \/ TcpPoll(c)
        \/ TcpWrite(c)

\* Run's goroutine is scheduled whenever it can take a step: a select with
\* stopCh closed returns, and the hello write completes or fails.
SpecStop ==
    /\ Init
    /\ [][NextStop]_vars
    /\ WF_vars(RunReturn)
    /\ WF_vars(RunStopped)
    /\ WF_vars(SleepStopped)
    /\ WF_vars(Hello)

\* ----------------------------------------------------- Conn.writeFrame
\* opcodes, payloads and mask keys of the frames the writers write
WOpcodes == {1, 8, 9, 10}
WPayloads == {Payload(0, 1), Payload(5, 1), Payload(126, 2)}
MaskKeys == {<<1, 2, 3, 4>>, <<255, 0, 170, 85>>}

\* a Write on the net.Conn fails once an earlier one has failed
Broken == stream # <<>> /\ stream[Len(stream)].part = "error"

\* the stream after a Write that fails
Failed == IF Broken THEN stream ELSE Append(stream, [w |-> 0, part |-> "error", bytes |-> <<>>])

\* WriteLock taking no lock
WriteLockNoMutex(w) ==
    /\ wpc[w] = "idle"
    /\ Len(stream) < MaxStream
    /\ \E op \in WOpcodes, pl \in WPayloads, key \in MaskKeys :
        wframe' = [wframe EXCEPT ![w] = [opcode |-> op, payload |-> pl, maskKey |-> key]]
    /\ wmu' = w
    /\ wpc' = [wpc EXCEPT ![w] = "locked"]
    /\ UNCHANGED stream
    /\ UNCHANGED <<sessionVars, readVars, dialVars, lockVars>>

\* writeFrame(opcode, payload): w.mu.Lock(), then the mask key is drawn
WriteLock(w) ==
    /\ wpc[w] = "idle"
    /\ wmu = 0
    /\ Len(stream) < MaxStream
    /\ \E op \in WOpcodes, pl \in WPayloads, key \in MaskKeys :
        wframe' = [wframe EXCEPT ![w] = [opcode |-> op, payload |-> pl, maskKey |-> key]]
    /\ wmu' = w
    /\ wpc' = [wpc EXCEPT ![w] = "locked"]
    /\ UNCHANGED stream
    /\ UNCHANGED <<sessionVars, readVars, dialVars, lockVars>>

\* w.c.Write(header): on an error writeFrame returns it and the deferred
\* Unlock runs
WriteHeader(w) ==
    /\ wpc[w] = "locked"
    /\ \E ok \in BOOLEAN :
        IF ok /\ ~Broken
        THEN /\ stream' = Append(stream,
                    [w |-> w, part |-> "header",
                     bytes |-> Header(wframe[w].opcode, wframe[w].payload.len,
                                      wframe[w].maskKey)])
             /\ wpc' = [wpc EXCEPT ![w] = "header"]
             /\ UNCHANGED <<wmu, wframe>>
        ELSE /\ stream' = Failed
             /\ wpc' = [wpc EXCEPT ![w] = "idle"]
             /\ wframe' = [wframe EXCEPT ![w] = NoFrame]
             /\ wmu' = 0
    /\ UNCHANGED <<sessionVars, readVars, dialVars, lockVars>>

\* w.c.Write(masked), then the deferred Unlock
WritePayload(w) ==
    /\ wpc[w] = "header"
    /\ \E ok \in BOOLEAN :
        stream' = IF ok /\ ~Broken
                  THEN Append(stream,
                         [w |-> w, part |-> "payload",
                          bytes |-> Mask(wframe[w].payload, wframe[w].maskKey)])
                  ELSE Failed
    /\ wpc' = [wpc EXCEPT ![w] = "idle"]
    /\ wframe' = [wframe EXCEPT ![w] = NoFrame]
    /\ wmu' = 0
    /\ UNCHANGED <<sessionVars, readVars, dialVars, lockVars>>

\* The writer model: the goroutines that share one connection call
\* writeFrame concurrently.
NextWrite == \E w \in Writers : WriteLock(w) \/ WriteHeader(w) \/ WritePayload(w)

SpecWrite == Init /\ [][NextWrite]_vars

\* ------------------------------------------------------- Conn.ReadMessage
\* the remote sends frame f
Deliver(f) ==
    /\ inbox = <<>>
    /\ nin < MaxFrames
    /\ inbox' = <<f>>
    /\ nin' = nin + 1
    /\ UNCHANGED <<rpc, rf, ret, replies>>
    /\ UNCHANGED <<sessionVars, writeVars, dialVars, lockVars>>

\* ReadStep answering a ping with a pong that has no payload
ReadStepEmptyPong ==
    /\ rpc = "read"
    /\ inbox # <<>>
    /\ LET f == Head(inbox)
           r == ReadFrame(f.hdr, f.body)
       IN /\ rf' = [n |-> nin, frame |-> f, res |-> r]
          /\ inbox' = Tail(inbox)
          /\ IF r.err # "nil"
             THEN /\ ret' = [op |-> 0, payload |-> EmptyPayload, err |-> r.err]
                  /\ rpc' = "returned"
                  /\ UNCHANGED replies
             ELSE IF r.op = 9
             THEN /\ replies' = Append(replies, [opcode |-> 10, payload |-> EmptyPayload])
                  /\ UNCHANGED <<ret, rpc>>
             ELSE IF r.op = 10
             THEN UNCHANGED <<ret, rpc, replies>>
             ELSE IF r.op = 8
             THEN /\ replies' = Append(replies,
                        [opcode |-> 8, payload |-> ClosePayload(1000, <<98, 121, 101>>)])
                  /\ ret' = [op |-> r.op, payload |-> r.payload, err |-> "eof"]
                  /\ rpc' = "returned"
             ELSE /\ ret' = [op |-> r.op, payload |-> r.payload, err |-> "nil"]
                  /\ rpc' = "returned"
                  /\ UNCHANGED replies
    /\ UNCHANGED nin
    /\ UNCHANGED <<sessionVars, writeVars, dialVars, lockVars>>

\* One pass of ReadMessage's loop: readFrame, then the switch on the opcode.
\* A ping is answered with WritePong(payload) and the loop goes on, a pong
\* is dropped, a close is answered with WriteClose(1000, "bye") and returned
\* with io.EOF, anything else is returned; an error of readFrame is returned.
ReadStep ==
    /\ rpc = "read"
    /\ inbox # <<>>
    /\ LET f == Head(inbox)
           r == ReadFrame(f.hdr, f.body)
       IN /\ rf' = [n |-> nin, frame |-> f, res |-> r]
          /\ inbox' = Tail(inbox)
          /\ IF r.err # "nil"
             THEN /\ ret' = [op |-> 0, payload |-> EmptyPayload, err |-> r.err]
                  /\ rpc' = "returned"
                  /\ UNCHANGED replies
             ELSE IF r.op = 9
             THEN /\ replies' = Append(replies, [opcode |-> 10, payload |-> r.payload])
                  /\ UNCHANGED <<ret, rpc>>
             ELSE IF r.op = 10
             THEN UNCHANGED <<ret, rpc, replies>>
             ELSE IF r.op = 8
             THEN /\ replies' = Append(replies,
                        [opcode |-> 8, payload |-> ClosePayload(1000, <<98, 121, 101>>)])
                  /\ ret' = [op |-> r.op, payload |-> r.payload, err |-> "eof"]
                  /\ rpc' = "returned"
             ELSE /\ ret' = [op |-> r.op, payload |-> r.payload, err |-> "nil"]
                  /\ rpc' = "returned"
                  /\ UNCHANGED replies
    /\ UNCHANGED nin
    /\ UNCHANGED <<sessionVars, writeVars, dialVars, lockVars>>

\* the caller calls ReadMessage again
ReadCall ==
    /\ rpc = "returned"
    /\ rpc' = "read"
    /\ ret' = NoRet
    /\ UNCHANGED <<inbox, nin, rf, replies>>
    /\ UNCHANGED <<sessionVars, writeVars, dialVars, lockVars>>

\* The reader model: the remote sends frames of InFrames, ReadMessage is
\* called over and over.
NextRead ==
    \/ \E f \in InFrames : Deliver(f)
    \/ ReadStep
    \/ ReadCall

SpecRead == Init /\ [][NextRead]_vars

\* ------------------------------------------------------------- loopback
LoopOpcodes == {1, 2, 8, 9, 10, 15}
LoopSizes == {0, 1, 5, 125, 126, 65535, 65536, MaxFrameSize, MaxFrameSize + 1}

\* the bytes writeFrame(opcode, payload) puts on the stream with mask key
\* maskKey, as a frame for the reader
LoopFrame(opcode, payload, maskKey) ==
    [hdr |-> Header(opcode, payload.len, maskKey),
     body |-> Mask(payload, maskKey),
     fin |-> TRUE, opcode |-> opcode, fits |-> payload.len <= MaxFrameSize,
     plain |-> payload, looped |-> TRUE]

\* writeFrame's output is fed to the reader
Loopback(opcode, payload, maskKey) ==
    /\ inbox = <<>>
    /\ nin < MaxFrames
    /\ inbox' = <<LoopFrame(opcode, payload, maskKey)>>
    /\ nin' = nin + 1
    /\ UNCHANGED <<rpc, rf, ret, replies>>
    /\ UNCHANGED <<sessionVars, writeVars, dialVars, lockVars>>

\* The loopback model: the writer's frames are read back by ReadMessage.
NextLoop ==
    \/ \E op \in LoopOpcodes, n \in LoopSizes, key \in MaskKeys :
            Loopback(op, Payload(n, 1), key)
    \/ ReadStep
    \/ ReadCall

SpecLoop == Init /\ [][NextLoop]_vars

\* The acknowledgment model: one connection on which the remote sends
\* acknowledgments and pushes with and without config and config_version;
\* the config_ack written for a push is recorded.
NextAck ==
    \/ DialOk(1)
    \/ Hello
    \/ \E m \in VersionedMsgs({"hello_ack"}) \cup PlainMsgs({"hello_ack"}) :
            RecvHello(1, m) /\ lastMsg' = m /\ prevRt' = rt /\ UNCHANGED lastAck
    \/ \E m \in VersionedMsgs(PushTypes) \cup PlainMsgs(PushTypes) :
            RecvPush(1, m) /\ lastMsg' = m /\ prevRt' = rt
                /\ lastAck' = PushAck(rt, rt')

SpecAck == Init /\ [][NextAck]_vars

\* The lifecycle model: two connections, a failed dial, reloads and Stop at
\* any moment; the remote sends acknowledgments and pushes without a
\* configuration or with one that sets every field.  Attempts end before
\* the telemetry and probe loops are started (Spec has those loops).
LifeMsgs(types) ==
    { m \in Msgs(types) :
        \/ m.config = "absent" /\ ~m.hasVer
        \/ /\ m.config = "ok" /\ m.has = Fields /\ ~m.hasVer
           /\ m.ms = 5 /\ m.en /\ m.isec = 10 /\ m.tg = <<1>> }

NextLife ==
    \/ Stop
    \/ ReloadConfig
    \/ RunReturn
    \/ DialFail(MaxSleeps)
    \/ DialOk(MaxConns)
    \/ Hello
    \/ RunRecvErr
    \/ RunTimeout
    \/ RunStopped
    \/ SleepTimer
    \/ SleepStopped
    \/ \E c \in Conns :
        \/ WatcherFire(c)
        \/ WatcherStop(c)
        \/ KeepaliveStop(c)
        \/ RecvReadErr(c)
        \/ RecvClose(c)
        \/ \E m \in LifeMsgs(AckTypes) :
                RecvHello(c, m) /\ lastMsg' = m /\ prevRt' = rt /\ UNCHANGED lastAck
        \/ \E m \in LifeMsgs(PushTypes) :
                RecvPush(c, m) /\ lastMsg' = m /\ prevRt' = rt /\ UNCHANGED lastAck
        \/ RecvFatal(c)

SpecLife == Init /\ [][NextLife]_vars

\* The probe model: one connection; the acknowledgment and the pushes turn
\* ping on with one of three target lists, two of them of the same length,
\* or turn it off.
PingTargets == {<<1>>, <<2>>, <<2, 1>>}

PingMsgs(types) ==
    { [type |-> t, config |-> "ok", has |-> {"enabled", "interval_sec", "targets"},
       ms |-> 0, en |-> TRUE, isec |-> 10, tg |-> g, hasVer |-> FALSE, ver |-> 0] :
        t \in types, g \in PingTargets }
    \cup
    { [type |-> t, config |-> "ok", has |-> {"enabled"},
       ms |-> 0, en |-> FALSE, isec |-> 0, tg |-> <<>>, hasVer |-> FALSE, ver |-> 0] :
        t \in types }

NextPing ==
    \/ DialOk(1)
    \/ Hello
    \/ RunReady
    \/ RunRecvErr
    \/ \E m \in PingMsgs(AckTypes) :
            RecvHello(1, m) /\ lastMsg' = m /\ prevRt' = rt /\ UNCHANGED lastAck
    \/ \E m \in PingMsgs(PushTypes) :
            RecvPush(1, m) /\ lastMsg' = m /\ prevRt' = rt /\ UNCHANGED lastAck
    \/ RecvReadErr(1)
    \/ TcpTop(1)
    \/ TcpFire(1)
    \/ TcpCancel(1)
    \/ TcpPoll(1)
    \/ TcpWrite(1)

SpecPing == Init /\ [][NextPing]_vars

\* The telemetry model: one connection; the acknowledgment and the pushes
\* carry no configuration, or a metrics interval of 0, 2000 or 5000 ms.
IntervalMsgs(types) ==
    { [type |-> t, config |-> "absent", has |-> {}, ms |-> 0, en |-> FALSE,
       isec |-> 0, tg |-> <<>>, hasVer |-> FALSE, ver |-> 0] : t \in types }
    \cup
    { [type |-> t, config |-> "ok", has |-> {"metrics_interval_ms"}, ms |-> x,
       en |-> FALSE, isec |-> 0, tg |-> <<>>, hasVer |-> FALSE, ver |-> 0] :
        t \in types, x \in {0, 2000, 5000} }

NextInterval ==
    \/ DialOk(1)
    \/ Hello
    \/ RunReady
    \/ RunRecvErr
    \/ \E m \in IntervalMsgs(AckTypes) :
            RecvHello(1, m) /\ lastMsg' = m /\ prevRt' = rt /\ UNCHANGED lastAck
    \/ \E m \in IntervalMsgs(PushTypes) :
            RecvPush(1, m) /\ lastMsg' = m /\ prevRt' = rt /\ UNCHANGED lastAck
    \/ RecvReadErr(1)
    \/ MetricsFire(1) /\ UNCHANGED ncollect
    \/ MetricsCancel(1)
    \/ MetricsWrite(1)

SpecInterval == Init /\ [][NextInterval]_vars

\* The collector model: the telemetry model with every call of the
\* collector counted, up to MaxCollects.
NextCollect ==
    \/ DialOk(1)
    \/ Hello
    \/ RunReady
    \/ RunRecvErr
    \/ \E m \in IntervalMsgs(AckTypes) :
            RecvHello(1, m) /\ lastMsg' = m /\ prevRt' = rt /\ UNCHANGED lastAck
    \/ RecvReadErr(1)
    \/ MetricsFire(1) /\ ncollect < MaxCollects /\ ncollect' = ncollect + 1
    \/ MetricsCancel(1)
    \/ MetricsWrite(1)

SpecCollect == Init /\ [][NextCollect]_vars

\* The retry-and-wait model: two connections and a failed dial; the remote
\* acknowledges, refuses, kicks, closes or fails; Stop at any moment.  Timers
\* fire, Run's goroutine is scheduled whenever it can take a step, and a
\* call of ws.Dial returns.
LiveMsgs == { m \in Msgs(AckTypes) : m.config = "absent" /\ ~m.hasVer }

\* top of Run's loop, no stop requested: runOnce is called and ws.Dial returns
Attempt == DialOk(MaxConns) \/ DialFail(MaxSleeps)

NextLive ==
    \/ Stop
    \/ RunReturn
    \/ Attempt
    \/ Hello
    \/ RunReady
    \/ RunRecvErr
    \/ RunTimeout
    \/ RunStopped
    \/ SleepTimer
    \/ SleepStopped
    \/ \E c \in Conns :
        \/ WatcherStop(c)
        \/ KeepaliveStop(c)
        \/ RecvReadErr(c)
        \/ RecvClose(c)
        \/ \E m \in LiveMsgs :
                RecvHello(c, m) /\ UNCHANGED <<lastMsg, prevRt, lastAck>>
        \/ RecvFatal(c)
        \/ MetricsCancel(c)
        \/ TcpTop(c)

SpecLive ==
    /\ Init
    /\ [][NextLive]_vars
    /\ WF_vars(Attempt)
    /\ WF_vars(Hello)
    /\ WF_vars(RunRecvErr)
    /\ WF_vars(RunTimeout)
    /\ WF_vars(SleepTimer)
    /\ WF_vars(RunReturn)
    /\ WF_vars(RunStopped)
    /\ WF_vars(SleepStopped)

\* The readiness model: two connections, one after a timeout of the other;
\* the remote sends any number of acknowledgments on each, with and without
\* a configuration, and nothing else.
NextReady ==
    \/ DialOk(MaxConns)
    \/ Hello
    \/ RunReady
    \/ RunTimeout
    \/ SleepTimer
    \/ \E c \in Conns : \E m \in SessionMsgs(AckTypes) :
            RecvHello(c, m) /\ lastMsg' = m /\ prevRt' = rt /\ UNCHANGED lastAck

SpecReady == Init /\ [][NextReady]_vars

\* ------------------------------------------------------ Agent.mu, Agent.rtMu
\* The tasks that read the static configuration: runOnce (getCfg before
\* Dial), recvLoop (getCfg for the agent id of config_ack), the metrics loop
\* (getMetricsInterval) and the tcpping loop (getTCPPing).
CfgTasks == {"runOnce", "recvLoop"}
RtTasks == {"metrics", "tcpping"}

\* getCfg: a.mu.RLock(); waits while ReloadConfig holds a.mu
GetCfgRLock(t) ==
    /\ t \notin locks.muR
    /\ locks.mu = "free"
    /\ locks' = [locks EXCEPT !.muR = @ \cup {t}]
    /\ UNCHANGED <<sessionVars, codecVars, dialVars>>

\* getCfg: return a.cfg, the copy of the struct under a.mu
GetCfgRead(t) ==
    /\ t \in locks.muR
    /\ t \notin locks.cfgR
    /\ locks' = [locks EXCEPT !.cfgR = @ \cup {t}]
    /\ UNCHANGED <<sessionVars, codecVars, dialVars>>

\* getCfg: the deferred a.mu.RUnlock()
GetCfgRUnlock(t) ==
    /\ t \in locks.muR
    /\ t \in locks.cfgR
    /\ locks' = [locks EXCEPT !.muR = @ \ {t}, !.cfgR = @ \ {t}]
    /\ UNCHANGED <<sessionVars, codecVars, dialVars>>

\* getMetricsInterval, getTCPPing: a.rtMu.RLock(); waits while
\* applyConfigFromMessage holds a.rtMu
GetRtRLock(t) ==
    /\ t \notin locks.rtR
    /\ locks.rtMu = "free"
    /\ locks' = [locks EXCEPT !.rtR = @ \cup {t}]
    /\ UNCHANGED <<sessionVars, codecVars, dialVars>>

\* does the getter go on to read a.cfg: getMetricsInterval when the overlay
\* interval is not positive; getTCPPing when the overlay flag is false (the
\* right operand of ||) or the overlay interval is not positive
ReadsStatic(t) ==
    IF t = "metrics"
    THEN rt.MetricsIntervalMS <= 0
    ELSE ~rt.TCPPingEnabled \/ rt.TCPPingIntervalSec <= 0

\* getMetricsInterval: ms = a.cfg.MetricsIntervalMS; getTCPPing:
\* a.cfg.TCPPing.Enabled, a.cfg.TCPPing.IntervalSec; a.mu is not taken
GetRtReadCfg(t) ==
    /\ t \in locks.rtR
    /\ t \notin locks.cfgR
    /\ ReadsStatic(t)
    /\ locks' = [locks EXCEPT !.cfgR = @ \cup {t}]
    /\ UNCHANGED <<sessionVars, codecVars, dialVars>>

\* getMetricsInterval, getTCPPing: the deferred a.rtMu.RUnlock()
GetRtRUnlock(t) ==
    /\ t \in locks.rtR
    /\ locks' = [locks EXCEPT !.rtR = @ \ {t}, !.cfgR = @ \ {t}]
    /\ UNCHANGED <<sessionVars, codecVars, dialVars>>

\* applyConfigFromMessage: a.rtMu.Lock(); waits for readers and writers
ApplyLock ==
    /\ locks.rtMu = "free"
    /\ locks.rtR = {}
    /\ locks' = [locks EXCEPT !.rtMu = "applyConfigFromMessage"]
    /\ UNCHANGED <<sessionVars, codecVars, dialVars>>

\* applyConfigFromMessage: the overlay is written, then the deferred
\* a.rtMu.Unlock()
ApplyUnlock(m) ==
    /\ locks.rtMu = "applyConfigFromMessage"
    /\ rt' = ApplyConfig(rt, m)
    /\ locks' = [locks EXCEPT !.rtMu = "free"]
    /\ UNCHANGED <<stopped, reconnectCh, cfg, seq>>
    /\ UNCHANGED <<runVars, connVars, watchVars, recvVars, loopVars, wireVars, histVars>>
    /\ UNCHANGED <<codecVars, dialVars, ncollect>>

\* ReloadConfig: a.mu.Lock(); waits for readers and writers of a.mu
ReloadLock ==
    /\ locks.mu = "free"
    /\ locks.muR = {}
    /\ locks' = [locks EXCEPT !.mu = "ReloadConfig"]
    /\ UNCHANGED <<sessionVars, codecVars, dialVars>>

\* ReloadConfig from config.Load on: a.cfg is written and the reconnect
\* signal sent, or Load failed; then the deferred a.mu.Unlock()
ReloadUnlock ==
    /\ locks.mu = "ReloadConfig"
    /\ \E loaded \in BOOLEAN, newCfg \in Configs :
        IF loaded
        THEN /\ cfg' = newCfg
             /\ reconnectCh' = 1
        ELSE UNCHANGED <<cfg, reconnectCh>>
    /\ locks' = [locks EXCEPT !.mu = "free"]
    /\ UNCHANGED <<stopped, rt, seq>>
    /\ UNCHANGED <<runVars, connVars, watchVars, recvVars, loopVars, wireVars, histVars>>
    /\ UNCHANGED <<codecVars, dialVars, ncollect>>

\* The lock model: the four reading tasks, ReloadConfig and
\* applyConfigFromMessage run concurrently; the remote's messages are those
\* of the session model.
NextLock ==
    \/ \E t \in CfgTasks : GetCfgRLock(t) \/ GetCfgRead(t) \/ GetCfgRUnlock(t)
    \/ \E t \in RtTasks : GetRtRLock(t) \/ GetRtReadCfg(t) \/ GetRtRUnlock(t)
    \/ ApplyLock
    \/ \E m \in SessionMsgs(AckTypes \cup PushTypes) : ApplyUnlock(m)
    \/ ReloadLock
    \/ ReloadUnlock

SpecLock == Init /\ [][NextLock]_vars

\* The idle-reload model: ReloadConfig is called only while Run is between
\* attempts (at the top of its loop, where runOnce dials, or in the backoff
\* sleep); two connections and a failed dial; the remote acknowledges or
\* the read fails; no Stop.
ReloadWhileIdle ==
    /\ runPc \in {"loop", "sleep"}
    /\ ReloadConfig

NextIdle ==
    \/ ReloadWhileIdle
    \/ DialFail(MaxSleeps)
    \/ DialOk(MaxConns)
    \/ Hello
    \/ RunReady
    \/ RunRecvErr
    \/ RunTimeout
    \/ SleepTimer
    \/ \E c \in Conns :
        \/ WatcherFire(c)
        \/ RecvReadErr(c)
        \/ \E m \in LiveMsgs :
                RecvHello(c, m) /\ UNCHANGED <<lastMsg, prevRt, lastAck>>
        \/ MetricsCancel(c)
        \/ TcpTop(c)

SpecIdle == Init /\ [][NextIdle]_vars

\* ---------------------------------------------------------------- ws.Dial
\* Strings are kept as sequences of symbols.  SHA-1 and base64 are kept as
\* the terms they are applied to: two accept values are equal exactly when
\* they are the encoded digest of the same string.
Magic == <<"258EAFA5-E914-47DA-95CA-C5AB0DC85B11">>

Sha1(str) == <<"sha1", str>>

Base64(x) == <<"base64", x>>

\* computeAccept: base64(sha1(key + magic))
ComputeAccept(key) == Base64(Sha1(key \o Magic))

\* the handshake keys: the base64 text of the 16 bytes rand.Read yields
DialKeys == {<<"key1">>, <<"key2">>, <<"key3">>}

\* the value of the Sec-WebSocket-Accept header: absent or empty, the
\* encoded digest for some key, or some other text
NoAccept == <<>>
Accepts == {NoAccept, <<"junk">>} \cup {ComputeAccept(k) : k \in DialKeys}

\* What http.ReadResponse finds on the stream: nothing that parses as an
\* HTTP response, or a response with a status and an accept header.
Responses ==
    {[kind |-> "unparsable"]}
    \cup {[kind |-> "http", status |-> st, accept |-> a] :
            st \in {101, 200, 400}, a \in Accepts}

NoResponse == [kind |-> "none"]

\* Dial returns: conn says that a *Conn is returned, open that the
\* underlying stream exists and was not closed
DialReturn(key, resp, conn, err, open) ==
    [pc |-> "returned", key |-> key, resp |-> resp, conn |-> conn, err |-> err,
     open |-> open]

\* url.Parse, the scheme check, DialContext and the TLS handshake: each may
\* fail, and then no stream is left; else the key is drawn
DialConnect ==
    /\ dial.pc = "idle"
    /\ \E outcome \in {"url", "scheme", "net", "tls", "ok"}, key \in DialKeys :
        dial' = IF outcome = "ok"
                THEN [pc |-> "connected", key |-> key]
                ELSE DialReturn(<<>>, NoResponse, FALSE, outcome, FALSE)
    /\ UNCHANGED <<sessionVars, codecVars, lockVars>>

\* conn.Write(req): on an error the stream is closed and the error returned
DialRequest ==
    /\ dial.pc = "connected"
    /\ \E ok \in BOOLEAN :
        dial' = IF ok
                THEN [pc |-> "sent", key |-> dial.key]
                ELSE DialReturn(dial.key, NoResponse, FALSE, "write", FALSE)
    /\ UNCHANGED <<sessionVars, codecVars, lockVars>>

\* http.ReadResponse and the checks of the status and of the accept header
DialResponse(resp) ==
    /\ dial.pc = "sent"
    /\ dial' =
        IF resp.kind = "unparsable"
        THEN DialReturn(dial.key, resp, FALSE, "read_response", FALSE)
        ELSE IF resp.status # 101
        THEN DialReturn(dial.key, resp, FALSE, "ErrBadHandshake", FALSE)
        ELSE IF resp.accept = NoAccept
        THEN DialReturn(dial.key, resp, FALSE, "ErrBadHandshake", FALSE)
        ELSE IF resp.accept # ComputeAccept(dial.key)
        THEN DialReturn(dial.key, resp, FALSE, "ErrBadHandshake", FALSE)
        ELSE DialReturn(dial.key, resp, TRUE, "nil", TRUE)
    /\ UNCHANGED <<sessionVars, codecVars, lockVars>>

\* the next session attempt calls Dial
DialCall ==
    /\ dial.pc = "returned"
    /\ dial' = NoDial
    /\ UNCHANGED <<sessionVars, codecVars, lockVars>>

\* The handshake model: Dial is called over and over against a remote that
\* answers with any response of Responses.
NextDial ==
    \/ DialConnect
    \/ DialRequest
    \/ \E resp \in Responses : DialResponse(resp)
    \/ DialCall

SpecDial == Init /\ [][NextDial]_vars

\* ------------------------------------------------------------------ claims
\* the attempt on connection c started its metrics and tcpping loops
WasActive(c) == metricsPc[c] # "idle"

\* runOnce is executing on the connection nconn
InSession == runPc \in {"hello", "waitReady", "active"}

\* a goroutine started by the attempt on connection c has not returned
Running(c) ==
    \/ watcher[c] = "wait"
    \/ keepalive[c] = "run"
    \/ recv[c] = "read"
    \/ metricsPc[c] \in {"timer", "stamped"}
    \/ tcpPc[c] \in {"top", "tick", "stamped"}

\* C1: when every attempt fails, the k-th backoff sleep lasts
\* min(2^(k-1), 30) seconds, and the backoff always lies within [1s, 30s].
C1_BackoffSequence ==
    /\ backoff \in 1..30
    /\ runPc = "sleep" => backoff = Min(2 ^ (nsleep - 1), 30)

\* the seventh sleep in a row, the second one at the cap
C1_Witness == runPc = "sleep" /\ nsleep = 7 /\ backoff = 30

\* C2: the sleep that follows the failure of an attempt that had reached
\* Active lasts 1s.
C2_ResetAfterActive ==
    (runPc = "sleep" /\ lastErr # "dial" /\ nconn \in Conns /\ WasActive(nconn))
        => backoff = 1

\* C3: in the order written on the wire, the sequence numbers of the metrics
\* and tcpping_batch messages are strictly increasing.
C3_WireOrder ==
    \A i, j \in 1..Len(wire) : i < j => wire[i].seq < wire[j].seq

\* C3 (amended): the sequence numbers on the wire are pairwise distinct, and
\* strictly increasing among the metrics messages and among the
\* tcpping_batch messages.
C3_DistinctAndOrderedPerType ==
    \A i, j \in 1..Len(wire) : i < j =>
        /\ wire[i].seq # wire[j].seq
        /\ wire[i].type = wire[j].type => wire[i].seq < wire[j].seq

\* messages of both loops on the wire of one connection, the one written
\* later carrying the lower number
C3_Witness ==
    /\ Len(wire) = 2
    /\ wire[1].conn = wire[2].conn
    /\ wire[1].type # wire[2].type
    /\ wire[1].seq > wire[2].seq

\* C4: while a later attempt is in progress no goroutine of an earlier
\* attempt is still running.
C4_NoStaleTasks ==
    \A c \in Conns : (InSession /\ c < nconn) => ~Running(c)

\* C5: a reconnect signal taken from the channel while an attempt holds an
\* open connection closes that connection.
C5_ReconnectClosesCurrent ==
    [][(InSession /\ connOpen[nconn] /\ reconnectCh = 1 /\ reconnectCh' = 0)
        => ~connOpen'[nconn]]_vars

\* C6: an attempt ended by the reconnect watcher closing its connection
\* reports no error, so no backoff sleep follows it.
C6_CleanReconnect == ~(runPc = "sleep" /\ lastErr = "closed")

\* C7: the first frame written on a connection is hello.
C7_HelloFirst == firstFrame \in {"none", "hello"}

\* C8: a metrics or tcpping_batch message is written on a connection only
\* after an acknowledgment was read on it, the loops of an attempt start only
\* after its acknowledgment, and an attempt that got auth_err instead ends
\* with the auth error, its loops never started, and Run goes on to retry.
C8_NoDataBeforeAck ==
    /\ \A i \in 1..Len(wire) : wire[i].acked
    /\ \A c \in Conns : (metricsPc[c] # "idle" \/ tcpPc[c] # "idle") => seenReady[c]
    /\ lastErr = "auth" =>
        /\ runPc = "sleep"
        /\ ~seenReady[nconn] => (metricsPc[nconn] = "idle" /\ tcpPc[nconn] = "idle")

\* a message was written on connection 1 after its acknowledgment, and the
\* attempt on connection 2 got auth_err right after hello
C8_Witness ==
    /\ \E i \in 1..Len(wire) : wire[i].conn = 1
    /\ nconn = 2 /\ lastErr = "auth" /\ ~seenReady[2]

\* C9: merge rules of applyConfigFromMessage on the message applied last.
C9_MergeRules ==
    lastMsg.config = "ok" =>
        /\ (lastMsg.has = {"enabled"} /\ ~lastMsg.en) =>
               /\ rt.MetricsIntervalMS = prevRt.MetricsIntervalMS
               /\ rt.TCPPingTargets = prevRt.TCPPingTargets
               /\ rt.TCPPingEnabled = FALSE
        /\ ("metrics_interval_ms" \in lastMsg.has /\ lastMsg.ms = 0) =>
               rt.MetricsIntervalMS = prevRt.MetricsIntervalMS
        /\ ("interval_sec" \in lastMsg.has /\ lastMsg.isec = 0) =>
               rt.TCPPingIntervalSec = prevRt.TCPPingIntervalSec
        /\ ("targets" \in lastMsg.has /\ lastMsg.tg # <<>>) =>
               rt.TCPPingTargets = lastMsg.tg
        /\ "targets" \notin lastMsg.has =>
               rt.TCPPingTargets = prevRt.TCPPingTargets

\* a push with metrics_interval_ms=0 and a new non-empty target list applied
\* to an overlay that had an interval and another non-empty list
C9_Witness ==
    /\ lastMsg.type = "config_push" /\ lastMsg.config = "ok"
    /\ "metrics_interval_ms" \in lastMsg.has /\ lastMsg.ms = 0
    /\ prevRt.MetricsIntervalMS = 5
    /\ prevRt.TCPPingTargets = <<1>> /\ lastMsg.tg = <<2, 1>>

\* C10: applying a message never lowers the overlay's configuration version.
C10_VersionMonotone == rt.ConfigVersion >= prevRt.ConfigVersion

\* the message applied last carried a config object that decoded
Applied == lastMsg.type # "none" /\ lastMsg.config = "ok"

\* C11: applying a message leaves every overlay field its config object
\* does not mention at the value it had before.
C11_UnmentionedKept ==
    Applied =>
        /\ "metrics_interval_ms" \notin lastMsg.has =>
               rt.MetricsIntervalMS = prevRt.MetricsIntervalMS
        /\ "enabled" \notin lastMsg.has =>
               rt.TCPPingEnabled = prevRt.TCPPingEnabled
        /\ "interval_sec" \notin lastMsg.has =>
               rt.TCPPingIntervalSec = prevRt.TCPPingIntervalSec
        /\ "targets" \notin lastMsg.has =>
               rt.TCPPingTargets = prevRt.TCPPingTargets

\* C12: after a message with tcpping.enabled=false was applied, and until
\* another message is applied, getTCPPing reports ping as disabled whatever
\* the static configuration says.
C12_DisableWins ==
    (Applied /\ "enabled" \in lastMsg.has /\ ~lastMsg.en) => ~GetTCPPing.enabled

\* C13: when recvLoop is back at reading after a config_push, the push has
\* been applied and the config_ack written for it carries ok=true and the
\* overlay's version as left by the apply: the push's own version when it
\* has a decodable config and a positive config_version.
C13_AckAfterApply ==
    lastMsg.type = "config_push" =>
        /\ rt = ApplyConfig(prevRt, lastMsg)
        /\ lastAck.type = "config_ack" /\ lastAck.ok
        /\ lastAck.config_version = rt.ConfigVersion
        /\ (Applied /\ lastMsg.hasVer /\ lastMsg.ver > 0) =>
               lastAck.config_version = lastMsg.ver

\* a push with config_version 2 on an overlay at version 1, answered with 2
C13_Witness ==
    /\ lastMsg.type = "config_push" /\ Applied
    /\ lastMsg.hasVer /\ lastMsg.ver = 2 /\ prevRt.ConfigVersion = 1
    /\ lastAck.config_version = 2 /\ recv[1] = "read"

\* C14: Run has returned only if a stop request was made.
C14_ReturnsOnlyOnStop == runPc = "done" => stopped

\* an attempt failed with the authentication error, Run went to its backoff
\* sleep, and returned from it once Stop was called
C14_Witness == runPc = "done" /\ stopped /\ lastErr = "auth" /\ nconn = 1

\* C15: once Stop has been called it stays called, Run eventually returns
\* from whatever position it is in, and no session attempt is started.
C15_StopTerminal ==
    /\ stopped ~> runPc = "done"
    /\ [][stopped => /\ stopped'
                     /\ nconn' = nconn
                     /\ ~(runPc = "loop" /\ runPc' \in {"hello", "sleep"})]_vars

\* Stop arrived while the session was active and Run has returned
C15_Witness ==
    /\ stopped /\ runPc = "done"
    /\ nconn = 1 /\ metricsPc[1] # "idle" /\ lastErr = "nil"

\* C16: on the stream every header is followed at once by the masked
\* payload of the same writeFrame call (or by nothing more, when that Write
\* failed or is still to come), and every payload follows its header.
C16_NoInterleave ==
    \A i \in 1..Len(stream) :
        /\ stream[i].part = "header" =>
            IF i = Len(stream)
            THEN wmu = stream[i].w /\ wpc[stream[i].w] = "header"
                 /\ stream[i].bytes = Header(wframe[wmu].opcode, wframe[wmu].payload.len,
                                             wframe[wmu].maskKey)
            ELSE \/ stream[i + 1].part = "error"
                 \/ /\ stream[i + 1].part = "payload"
                    /\ stream[i + 1].w = stream[i].w
        /\ stream[i].part = "payload" =>
            /\ i > 1
            /\ stream[i - 1].part = "header"
            /\ stream[i - 1].w = stream[i].w

\* two frames of two writers on the stream, one after the other
C16_Witness ==
    /\ Len(stream) = 4
    /\ stream[1].w = 1 /\ stream[2].w = 1 /\ stream[3].w = 2 /\ stream[4].w = 2
    /\ stream[4].part = "payload"

\* the step is a readFrame call on a complete frame with FIN set
ReadsWhole == rf'.n # rf.n /\ rf'.frame.fin /\ rf'.frame.fits

\* C17: ReadMessage answers a ping with one pong of the same payload and
\* goes on reading, drops a pong, answers a close with one close frame and
\* returns it with io.EOF and its payload, and returns a text frame as read.
C17_ControlFrames ==
    [][ReadsWhole =>
        LET f == rf'.frame IN
        /\ f.opcode = 9 =>
            /\ replies' = Append(replies, [opcode |-> 10, payload |-> f.plain])
            /\ rpc' = "read" /\ ret' = ret
        /\ f.opcode = 10 =>
            /\ replies' = replies
            /\ rpc' = "read" /\ ret' = ret
        /\ f.opcode = 8 =>
            /\ Len(replies') = Len(replies) + 1
            /\ replies'[Len(replies')].opcode = 8
            /\ rpc' = "returned"
            /\ ret' = [op |-> 8, payload |-> f.plain, err |-> "eof"]
        /\ f.opcode = 1 =>
            /\ replies' = replies
            /\ rpc' = "returned"
            /\ ret' = [op |-> 1, payload |-> f.plain, err |-> "nil"]]_vars

\* a ping was answered, then a close was read and returned
C17_Witness ==
    /\ Len(replies) = 2
    /\ replies[1] = [opcode |-> 10, payload |-> Payload(5, 3)]
    /\ replies[2].opcode = 8
    /\ ret.err = "eof" /\ ret.payload = Payload(126, 3)

\* C18: a frame with FIN unset makes ReadMessage return the fragmentation
\* error with no payload, and no reply is written for it.
C18_FinUnsetFragmented ==
    [][(rf'.n # rf.n /\ ~rf'.frame.fin) =>
        /\ rpc' = "returned"
        /\ ret' = [op |-> 0, payload |-> EmptyPayload, err |-> "fragmented"]
        /\ replies' = replies]_vars

\* C18 (amended): a frame with FIN unset makes ReadMessage return an error
\* with no payload, and no reply is written for it; the error is the
\* fragmentation error when the declared length is at most 32 MiB and the
\* size error when it is more.
C18_FinUnsetRejected ==
    [][(rf'.n # rf.n /\ ~rf'.frame.fin) =>
        /\ rpc' = "returned"
        /\ ret' = [op |-> 0, payload |-> EmptyPayload,
                   err |-> IF rf'.frame.fits THEN "fragmented" ELSE "too_large"]
        /\ replies' = replies]_vars

\* a ping of five bytes with FIN unset was read: fragmentation error, no pong
C18_Witness ==
    /\ rf.n > 0 /\ ~rf.frame.fin /\ rf.frame.opcode = 9 /\ rf.frame.plain.len = 5
    /\ rpc = "returned" /\ ret.err = "fragmented" /\ replies = <<>>

\* C19: readFrame rejects a declared length above 32 MiB, or with the top
\* bit of the 64-bit form set, with the size error, having made no payload
\* buffer and read no payload byte; it accepts a complete frame with FIN
\* set whose declared length is at most 32 MiB.
C19_SizeLimit ==
    rf.n > 0 =>
        /\ ~rf.frame.fits =>
            /\ rf.res.err = "too_large"
            /\ rf.res.alloc = 0
            /\ rf.res.bodyRead = 0
        /\ (rf.frame.fits /\ rf.frame.fin) =>
            /\ rf.res.err = "nil"
            /\ rf.res.payload.len = rf.frame.plain.len

\* a 64-bit length with the top bit set was rejected, after a ping of
\* exactly 32 MiB was accepted and answered
C19_Witness ==
    /\ rf.n = 2 /\ Len(rf.frame.hdr) = 10 /\ rf.frame.hdr[3] = 128
    /\ rf.res.err = "too_large"
    /\ Len(replies) = 1 /\ replies[1].payload.len = MaxFrameSize

\* what writeFrame must put on the stream for the looped frame f
WireForm(f) ==
    LET n == f.plain.len
        key == SubSeq(f.hdr, Len(f.hdr) - 3, Len(f.hdr))
    IN /\ f.hdr[1] = 128 + (f.opcode % 16)
       /\ f.hdr[2] >= 128
       /\ Len(f.hdr) = IF n <= 125 THEN 6 ELSE IF n <= 65535 THEN 8 ELSE 14
       /\ f.hdr[2] - 128 = IF n <= 125 THEN n ELSE IF n <= 65535 THEN 126 ELSE 127
       /\ f.body.len = n
       /\ \A i \in 1..Len(f.plain.head) :
            f.body.head[i] = Xor(f.plain.head[i], key[((i - 1) % 4) + 1], 8)

\* C20: readFrame on the bytes of writeFrame(opcode, payload) returns the
\* opcode and the payload, and the bytes have FIN and the mask bit set, the
\* length form of the size bracket and the payload XORed with the key.
C20_RoundTrip ==
    (rf.n > 0 /\ rf.frame.looped) =>
        /\ WireForm(rf.frame)
        /\ rf.res.err = "nil"
        /\ rf.res.op = rf.frame.opcode
        /\ rf.res.payload = rf.frame.plain

\* C20 (amended): as C20 for a payload of at most 32 MiB; the wire form
\* holds for every payload.
C20_RoundTripInRange ==
    (rf.n > 0 /\ rf.frame.looped) =>
        /\ WireForm(rf.frame)
        /\ rf.frame.plain.len <= MaxFrameSize =>
            /\ rf.res.err = "nil"
            /\ rf.res.op = rf.frame.opcode
            /\ rf.res.payload = rf.frame.plain

\* a text frame of 32 MiB came back whole after one of 126 bytes did
C20_Witness ==
    /\ rf.n = 2 /\ rf.frame.looped /\ rf.frame.opcode = 1
    /\ rf.frame.plain.len = MaxFrameSize /\ rf.res.payload = rf.frame.plain
    /\ ret.op = 1 /\ ret.err = "nil"

\* the response Dial read carries status 101 and the accept value of its key
GoodResponse ==
    /\ dial.resp.kind = "http"
    /\ dial.resp.status = 101
    /\ dial.resp.accept = ComputeAccept(dial.key)

\* C21: Dial returns a connection only for a response with status 101 and
\* the accept value base64(SHA-1(key + GUID)); for any other response,
\* unparsable ones included, it returns the handshake-failure error and no
\* connection, and the stream is closed.
C21_HandshakeChecked ==
    dial.pc = "returned" =>
        /\ dial.conn => GoodResponse
        /\ (dial.resp.kind # "none" /\ ~GoodResponse) =>
            /\ dial.err = "ErrBadHandshake"
            /\ ~dial.conn
            /\ ~dial.open

\* C22: the overlay changes only in a step of a receive loop that applies
\* a message to it; every other step (a failed dial, the end of an attempt,
\* the backoff sleep, a new dial, Stop, ReloadConfig) leaves it as it was.
C22_OverlayPersists ==
    [][rt' # rt =>
        /\ \E c \in Conns : recv[c] = "read" /\ connOpen[c]
        /\ lastMsg'.type \in AckTypes \cup PushTypes
        /\ rt' = ApplyConfig(rt, lastMsg')
        /\ <<stopped, cfg, reconnectCh, runVars, connVars>>' =
               <<stopped, cfg, reconnectCh, runVars, connVars>>]_vars

\* the overlay set on connection 1 is still there when the attempt on
\* connection 2 starts after a teardown and a backoff sleep
C22_Witness ==
    /\ nconn = 2 /\ runPc = "hello" /\ ~connOpen[1] /\ nsleep = 1
    /\ rt.MetricsIntervalMS = 5 /\ rt.TCPPingTargets = <<1>>

\* C23: when the ticker of the probe loop fires, the targets it probes for
\* the batch are the overlay's target list as it stands at that moment.
C23_BatchProbesCurrentTargets ==
    [][\A c \in Conns :
        (tcpPc[c] = "tick" /\ tcpPc'[c] = "stamped") =>
            pLocal[c].targets = rt.TCPPingTargets]_vars

\* C24: a telemetry cycle that arms its timer arms it with the overlay's
\* metrics interval as it is then when that is positive and with the static
\* default otherwise; a message applied while the timer is armed does not
\* change that wait; and the first cycle after an acknowledgment with
\* metrics_interval_ms 5000 waits 5000 ms.
C24_CycleInterval ==
    [][\A c \in Conns :
        /\ (metricsPc[c] # "timer" /\ metricsPc'[c] = "timer") =>
            /\ rt' = rt
            /\ minterval'[c] = IF rt.MetricsIntervalMS > 0 THEN rt.MetricsIntervalMS
                                ELSE cfg.MetricsIntervalMS
            /\ (metricsPc[c] = "idle" /\ lastMsg.type \in AckTypes
                    /\ lastMsg.config = "ok" /\ lastMsg.ms = 5000) =>
                   minterval'[c] = 5000
        /\ (metricsPc[c] = "timer" /\ rt' # rt) =>
            /\ metricsPc'[c] = "timer"
            /\ minterval'[c] = minterval[c]]_vars

\* the first cycle of the session waits 5000 ms after hello_ok set that
\* interval, the static default being 1000 ms
C24_Witness ==
    /\ metricsPc[1] = "timer" /\ minterval[1] = 5000 /\ seq = 0
    /\ lastMsg.type = "hello_ok" /\ lastMsg.ms = 5000
    /\ cfg.MetricsIntervalMS = 1000 /\ runPc = "active"

\* C25: a cycle in which the collector fails writes no message and takes
\* no sequence number, leaves the attempt and its connection as they are,
\* and (unless the session has ended meanwhile) arms the timer of the next
\* cycle, which calls the collector again.
C25_CollectFailureLocal ==
    [][\A c \in Conns :
        (ncollect' # ncollect /\ metricsPc[c] = "timer" /\ metricsPc'[c] # "stamped") =>
            /\ seq' = seq /\ mseq' = mseq
            /\ wire' = wire /\ firstFrame' = firstFrame
            /\ <<runVars, connVars, recvVars>>' = <<runVars, connVars, recvVars>>
            /\ metricsPc'[c] = IF ctxDone[c] \/ stopped THEN "done" ELSE "timer"]_vars

\* the collector failed in the first cycle and was called again in the
\* second, whose message takes the first sequence number
C25_Witness ==
    /\ ncollect = 2 /\ seq = 1 /\ metricsPc[1] = "stamped" /\ mseq[1] = 1
    /\ wire = <<>> /\ runPc = "active"

\* the errors an attempt can end with
AttemptErrors == {"dial", "closed", "write", "auth", "kicked", "read", "eof", "timeout"}

\* C26: an attempt that ended with an error is followed by a backoff sleep,
\* never by the return of Run, and unless a stop request is made the sleep
\* ends and a new attempt starts (Dial returns a connection or fails again).
C26_FailedAttemptRetried ==
    /\ [](lastErr \in AttemptErrors => (runPc = "sleep" \/ (runPc = "done" /\ stopped)))
    /\ \A k \in 0..(MaxConns - 1) : \A n \in 1..(MaxSleeps + MaxConns) :
          (runPc = "sleep" /\ lastErr \in AttemptErrors /\ nconn = k /\ nsleep = n)
              ~> (stopped \/ nconn > k \/ nsleep > n)

\* the attempt on connection 1 was refused with auth_err, Run retried, and
\* the attempt on connection 2 was kicked
C26_Witness ==
    /\ runPc = "sleep" /\ lastErr = "kicked" /\ nconn = 2 /\ nsleep = 2
    /\ recvErr[1] = "none" /\ ~seenReady[1] /\ ~stopped

\* C27: an attempt waiting for its acknowledgment stops waiting; it leaves
\* by going Active once ready is closed, by failing with the error recvLoop
\* sent, by failing with the timeout error, or by returning nil on a stop
\* request; and a recvLoop that is still reading finds recvErr empty, so the
\* one error it sends before it returns never blocks.
C27_AuthenticatingEnds ==
    /\ runPc = "waitReady" ~> runPc # "waitReady"
    /\ [][(runPc = "waitReady" /\ runPc' # "waitReady") =>
            \/ runPc' = "active" /\ ready[nconn] /\ lastErr' = lastErr
            \/ /\ runPc' = "sleep" /\ recvErr[nconn] # "none"
               /\ lastErr' = recvErr[nconn]
            \/ runPc' = "sleep" /\ lastErr' = "timeout"
            \/ runPc' = "loop" /\ stopped /\ lastErr' = "nil"]_vars
    /\ [](\A c \in Conns : recv[c] = "read" => recvErr[c] = "none")

\* the attempt on connection 1 timed out; its recvLoop read on, got
\* auth_err afterwards and returned
C27_Witness ==
    /\ nconn = 1 /\ lastErr = "timeout" /\ runPc = "sleep"
    /\ recv[1] = "done" /\ ~seenReady[1] /\ connOpen[1] = FALSE

\* C28: in the readiness model a step that records an acknowledgment and
\* leaves Run where it is is a step of recvLoop's hello_ok/hello_ack case.
\* Every such step applies the message to the overlay and reads on without
\* sending an error; the first one on a connection sets seenReady and closes
\* that connection's ready, every later one leaves both as they are.
C28_ReadyOnce ==
    [][(lastMsg'.type \in AckTypes /\ runPc' = runPc) =>
            /\ rt' = ApplyConfig(rt, lastMsg')
            /\ recv' = recv /\ recv[nconn] = "read"
            /\ recvErr' = recvErr
            /\ IF seenReady[nconn]
               THEN UNCHANGED <<seenReady, ready>>
               ELSE /\ seenReady' = [seenReady EXCEPT ![nconn] = TRUE]
                    /\ ready' = [ready EXCEPT ![nconn] = TRUE]]_vars

\* connection 2 has been acknowledged twice, each time with a
\* configuration that changed the overlay, and its recvLoop reads on
C28_Witness ==
    /\ nconn = 2 /\ runPc = "active" /\ seenReady[2] /\ ready[2]
    /\ lastMsg.type = "hello_ok" /\ recv[2] = "read"
    /\ ~seenReady[1]
    /\ prevRt.TCPPingTargets = <<1>> /\ prevRt.TCPPingEnabled
    /\ ~rt.TCPPingEnabled

\* C29: every task that is reading a.cfg holds a.mu for reading, and no
\* task is reading a.cfg while ReloadConfig holds a.mu for its write.
C29_StaticConfigLocked ==
    /\ \A t \in locks.cfgR : t \in locks.muR
    /\ locks.mu = "ReloadConfig" => locks.cfgR = {}

\* C30: at most one reconnect request is pending, and when requests are
\* made only between attempts, the connection of an attempt that has not
\* been acknowledged yet (hello not written, or written and ready not
\* closed) is open: no request has torn it down.
C30_IdleRequestSpared ==
    /\ reconnectCh \in {0, 1}
    /\ runPc \in {"hello", "waitReady"} /\ ~ready[nconn] => connOpen[nconn]

====
